---- MODULE Spec2Model ----
(***************************************************************************)
(* A model of balerin's packaging manager: discovery of the packages under *)
(* the configured roots, validation of their declared dependencies, the    *)
(* recursive sweeps of _load_components and the double-checked lock of     *)
(* load_components.                                                        *)
(*                                                                         *)
(* Names and paths are sequences of one-character strings, so that the     *)
(* string operations of the source (startswith, split, join, replace,      *)
(* lstrip) are computed as python computes them.                           *)
(***************************************************************************)
EXTENDS Integers, Sequences, FiniteSets, TLC

(***************************************************************************)
(* Bounds of the model.                                                    *)
(***************************************************************************)
\* number of threads that may call load_components
MaxThreads == 2
\* calls of load_components one thread makes
MaxCalls == 2
\* hooks that are registered on the manager
MaxHooks == 1
\* depth of nested _load_components calls at which the interpreter raises
\* RecursionError (sys.getrecursionlimit() in python, 1000 frames by default)
RecursionLimit == 6
\* construction requests one thread makes on the classes of a singleton
\* hierarchy
MaxRequests == 2
\* calls of register_hook on a manager that one thread loads
MaxRegistrations == 3

(***************************************************************************)
(* python's None.                                                          *)
(***************************************************************************)
None == <<"None">>

(***************************************************************************)
(* String operations of python, on sequences of characters.                *)
(***************************************************************************)
\* str.startswith
StartsWith(s, p) == Len(p) <= Len(s) /\ SubSeq(s, 1, Len(p)) = p

\* str.endswith
EndsWith(s, p) == Len(p) <= Len(s) /\ SubSeq(s, Len(s) - Len(p) + 1, Len(s)) = p

\* the tail of s from index i on
From(s, i) == SubSeq(s, i, Len(s))

\* `sub in s`
RECURSIVE Contains(_, _)
Contains(s, sub) ==
    IF Len(sub) > Len(s) THEN FALSE
    ELSE IF StartsWith(s, sub) THEN TRUE
    ELSE Contains(Tail(s), sub)

\* str.replace(old, new): every non-overlapping occurrence, from the left
RECURSIVE Replace(_, _, _)
Replace(s, old, new) ==
    IF Len(s) = 0 \/ Len(old) = 0 THEN s
    ELSE IF StartsWith(s, old) THEN new \o Replace(From(s, Len(old) + 1), old, new)
    ELSE <<Head(s)>> \o Replace(Tail(s), old, new)

\* str.lstrip(ch)
RECURSIVE LStrip(_, _)
LStrip(s, ch) ==
    IF Len(s) > 0 /\ Head(s) = ch THEN LStrip(Tail(s), ch) ELSE s

\* str.split(sep) for a one-character separator: ''.split('.') is ['']
RECURSIVE SplitAcc(_, _, _)
SplitAcc(s, sep, cur) ==
    IF Len(s) = 0 THEN <<cur>>
    ELSE IF Head(s) = sep THEN <<cur>> \o SplitAcc(Tail(s), sep, <<>>)
    ELSE SplitAcc(Tail(s), sep, Append(cur, Head(s)))

Split(s, sep) == SplitAcc(s, sep, <<>>)

\* sep.join(parts)
RECURSIVE Join(_, _)
Join(parts, sep) ==
    IF Len(parts) = 0 THEN <<>>
    ELSE IF Len(parts) = 1 THEN parts[1]
    ELSE parts[1] \o <<sep>> \o Join(Tail(parts), sep)

\* `x in list`
InSeq(x, s) == \E i \in 1..Len(s) : s[i] = x

\* the elements of a list, as a set
Range(s) == {s[i] : i \in 1..Len(s)}

\* the first index of x in s (0 when absent)
IndexOf(x, s) == IF InSeq(x, s) THEN CHOOSE i \in 1..Len(s) : s[i] = x /\ \A j \in 1..(i-1) : s[j] # x ELSE 0

(***************************************************************************)
(* File names and separators.                                              *)
(***************************************************************************)
Dot == "."
Slash == "/"
DotPy == <<".", "p", "y">>
InitPy == <<"_", "_", "i", "n", "i", "t", "_", "_", ".", "p", "y">>
InitName == <<"_", "_", "i", "n", "i", "t", "_", "_">>

\* os.path.join(root, name)
PathJoin(root, name) == root \o <<Slash>> \o name

\* Path(p).parent.as_posix()
PathParent(p) ==
    LET parts == Split(p, Slash)
    IN  Join(SubSeq(parts, 1, Len(parts) - 1), Slash)

(***************************************************************************)
(* The state.  The first group is what the manager is constructed with and *)
(* the environment it runs in; none of it changes after construction.      *)
(***************************************************************************)
VARIABLES
    \* self._roots: the root paths, in the order given
    roots,
    \* self._ignored_packages, self._ignored_modules
    ignored_packages, ignored_modules,
    \* self._ignored_detector, as the set of <<name, is_module>> it answers
    \* True for (empty when no detector is configured)
    ignored_detector,
    \* self._base_component (None when not configured)
    base_component,
    \* whether self._module_loader is configured
    module_loader,
    \* the file system: directory path -> [kids: the sub-directory names in
    \* the order os.walk lists them, files: the file names in the order
    \* os.listdir lists them]
    fs,
    \* the Package subclass each importable package defines, if it defines
    \* one: name -> [DEPENDS, IS_ENABLED (the ENABLED attribute), COMPONENT_NAME]
    pkg,
    \* the calls that raise in this application: <<"load", module>> (the import
    \* of the module raises), <<"custom", module>> (module_loader raises on
    \* it), <<"package_loaded", hook>> and <<"after_packages_loaded", hook>>
    \* (that method of the hook raises)
    failing,
    \* the fields of the manager that a load pass writes
    is_loaded, all_packages, loaded_packages, disabled_packages,
    not_packages, dependency_map, components,
    \* HookMixin._hooks
    hooks,
    \* PackagingManager._lock: the thread that holds it, or 0
    lock,
    \* each thread's position in load_components
    pc,
    \* the frame of the running pass: which root, which sweep, which package
    frame,
    \* how the last call of each thread ended: "" (none yet), "returned",
    \* or the name of the exception that propagated
    outcome,
    \* calls of load_components each thread may still make
    calls,
    \* hooks that may still be registered
    hook_budget,
    \* history: what the current pass did, in order
    trace,
    \* history: the passes started, completed and failed so far
    passes,
    \* history: the calls of register_hook, in order, each with the instance
    \* given and the exception raised ("" when it returned)
    registrations,
    \* the metaclass of the singleton hierarchy: "unique" (UniqueSingletonMeta)
    \* or "multi" (MultiSingletonMeta and its subclasses)
    policy,
    \* the registered instances: under "unique" the _instance attribute in
    \* each class's own __dict__, under "multi" the _instances dictionary
    \* (0: no entry)
    registry,
    \* the metaclass's _lock: the thread that holds it, or 0
    meta_lock,
    \* each thread's position in SingletonMetaBase.__call__, the class it
    \* called and the instance that call returned (0: not returned yet)
    call_pc, call_cls, call_result,
    \* the instance a thread has constructed and not yet registered
    call_instance,
    \* construction requests each thread may still make
    requests,
    \* history: the class of every instance constructed, in order; an
    \* instance is identified by its index here
    constructed,
    \* the root paths each thread passed to the class it called, and the
    \* exception its call raised ("" when none)
    call_roots, call_error

confVars == <<roots, ignored_packages, ignored_modules, ignored_detector,
              base_component, module_loader, fs, pkg, failing>>

passVars == <<all_packages, loaded_packages, disabled_packages, not_packages,
              dependency_map, components>>

managerVars == <<confVars, passVars, is_loaded, hooks, lock, pc, frame, outcome,
                 calls, hook_budget, trace, passes, registrations>>

singletonVars == <<policy, registry, meta_lock, call_pc, call_cls, call_result,
                   call_instance, requests, constructed, call_roots, call_error>>

vars == <<managerVars, singletonVars>>

(***************************************************************************)
(* Discovery: _find_loadable_components and what it calls.                 *)
(***************************************************************************)
\* PackagingManager._is_equal
_is_equal(condition, full_module_or_package) ==
    LET condition_parts == Split(condition, Dot)
        full_parts == Split(full_module_or_package, Dot)
    IN  IF Len(condition_parts) > Len(full_parts) THEN FALSE
        ELSE \A index \in 1..Len(condition_parts) :
                \/ condition_parts[index] = <<"*">>
                \/ condition_parts[index] = full_parts[index]

\* PackagingManager._is_detected_ignored
_is_detected_ignored(name, is_module) == <<name, is_module>> \in ignored_detector

\* a mutation of _is_ignored_package that does not read the ignore list
Mutant_is_ignored_package(package_name) == _is_detected_ignored(package_name, FALSE)

\* a mutation of _is_ignored_package that ignores no package
Mutant_is_ignored_package_never(package_name) == FALSE

\* PackagingManager._is_ignored_package
_is_ignored_package(package_name) ==
    \/ \E i \in 1..Len(ignored_packages) :
          \/ StartsWith(package_name, ignored_packages[i])
          \/ _is_equal(ignored_packages[i], package_name)
    \/ _is_detected_ignored(package_name, FALSE)

\* PackagingManager._is_disabled_package, on a value of _disabled_packages
_is_disabled_package(disabled, package_name) ==
    \E i \in 1..Len(disabled) :
        \/ StartsWith(package_name, disabled[i])
        \/ _is_equal(disabled[i], package_name)

\* PackagingManager._is_ignored_module
_is_ignored_module(module_name) ==
    \/ \E i \in 1..Len(ignored_modules) : EndsWith(module_name, ignored_modules[i])
    \/ _is_detected_ignored(module_name, TRUE)

\* PackagingManager._is_module
_is_module(file_name) == EndsWith(file_name, DotPy) /\ ~Contains(file_name, InitPy)

\* PackagingManager._has_module: os.path.isfile(path/<module>.py)
_has_module(path, module_name) ==
    path \in DOMAIN fs /\ InSeq(module_name \o DotPy, fs[path].files)

\* PackagingManager._parent_is_package, on a value of _not_packages
_parent_is_package(notpk, path) ==
    \A i \in 1..Len(notpk) : ~StartsWith(path, notpk[i])

\* utils.get_package_name
get_package_name(path, root_path) ==
    LStrip(Replace(Replace(path, root_path, <<>>), <<Slash>>, <<Dot>>), Dot)

\* PackagingManager._get_module_name
_get_module_name(package_name, module_name) == package_name \o <<Dot>> \o module_name

\* PackagingManager._get_package_class: the Package subclass the imported
\* package defines; HasPackageClass is `package_class is not None`
HasPackageClass(package_name) == package_name \in DOMAIN pkg

\* PackagingManager._is_included / _is_excluded / _should_visit
_is_included(include, visiting_path) ==
    Len(include) <= 0 \/ \E i \in 1..Len(include) : StartsWith(visiting_path, include[i])

_is_excluded(exclude, visiting_path) ==
    ~(Len(exclude) <= 0) /\ \E i \in 1..Len(exclude) : StartsWith(visiting_path, exclude[i])

_should_visit(include, exclude, visiting_path) ==
    _is_included(include, visiting_path) /\ ~_is_excluded(exclude, visiting_path)

\* a list without the elements that fail a test, order kept
RECURSIVE KeepVisited(_, _, _, _)
KeepVisited(root, directories, include, exclude) ==
    IF Len(directories) = 0 THEN <<>>
    ELSE (IF _should_visit(include, exclude, PathJoin(root, Head(directories)))
          THEN <<Head(directories)>> ELSE <<>>)
         \o KeepVisited(root, Tail(directories), include, exclude)

\* the module names of a package: the files of its directory that are modules
\* and are not ignored, in listing order
RECURSIVE ModulesOf(_, _)
ModulesOf(package_name, files) ==
    IF Len(files) = 0 THEN <<>>
    ELSE LET file_name == Head(files)
             full_module_name == _get_module_name(package_name, Replace(file_name, DotPy, <<>>))
         IN  (IF _is_module(file_name) /\ ~_is_ignored_module(full_module_name)
              THEN <<full_module_name>> ELSE <<>>)
             \o ModulesOf(package_name, Tail(files))

\* self._components.setdefault(single_root, {}), then
\* components.setdefault(package_name, []) and the appends of the modules
AddComponent(comps, single_root, package_name, modules) ==
    LET withRoot == IF \E i \in 1..Len(comps) : comps[i].root = single_root
                    THEN comps
                    ELSE Append(comps, [root |-> single_root, packages |-> <<>>])
        r == CHOOSE i \in 1..Len(withRoot) : withRoot[i].root = single_root
        packs == withRoot[r].packages
        packs2 == IF \E j \in 1..Len(packs) : packs[j].name = package_name
                  THEN [j \in 1..Len(packs) |->
                          IF packs[j].name = package_name
                          THEN [packs[j] EXCEPT !.modules = @ \o modules]
                          ELSE packs[j]]
                  ELSE Append(packs, [name |-> package_name, modules |-> modules])
    IN  [withRoot EXCEPT ![r].packages = packs2]

\* the body of the loop `for directory in directories` (manager.py 501-533)
\* on the state st = [all, disabled, notpk, comps]
VisitDirectory(st, root, directory, single_root, root_path) ==
    LET combined_path == PathJoin(root, directory)
        is_package == _has_module(combined_path, InitName)
        notpk2 == IF is_package THEN st.notpk ELSE Append(st.notpk, combined_path)
        package_name == get_package_name(combined_path, root_path)
    IN  IF ~(is_package /\ _parent_is_package(notpk2, combined_path))
        THEN [st EXCEPT !.notpk = notpk2]
        ELSE IF _is_ignored_package(package_name) THEN st
        ELSE IF HasPackageClass(package_name) /\ ~pkg[package_name].IS_ENABLED
        THEN [st EXCEPT !.disabled = Append(@, package_name)]
        ELSE IF _is_disabled_package(st.disabled, package_name) THEN st
        ELSE [st EXCEPT !.all = Append(@, package_name),
                        !.comps = AddComponent(@, single_root, package_name,
                                     ModulesOf(package_name, fs[combined_path].files))]

RECURSIVE VisitDirectories(_, _, _, _, _)
VisitDirectories(st, root, directories, single_root, root_path) ==
    IF Len(directories) = 0 THEN st
    ELSE VisitDirectories(VisitDirectory(st, root, Head(directories), single_root, root_path),
                          root, Tail(directories), single_root, root_path)

\* os.walk(root, followlinks=True), top-down: the directory itself, then each
\* kept sub-directory in turn
RECURSIVE Walk(_, _, _, _, _)
RECURSIVE WalkInto(_, _, _, _, _, _)
Walk(st, root, single_root, exclude, root_path) ==
    IF root \notin DOMAIN fs THEN st
    ELSE LET directories == KeepVisited(root, fs[root].kids, <<single_root>>, exclude)
             st2 == VisitDirectories(st, root, directories, single_root, root_path)
         IN  WalkInto(st2, root, directories, single_root, exclude, root_path)

WalkInto(st, root, directories, single_root, exclude, root_path) ==
    IF Len(directories) = 0 THEN st
    ELSE WalkInto(Walk(st, PathJoin(root, Head(directories)), single_root, exclude, root_path),
                  root, Tail(directories), single_root, exclude, root_path)

\* a list without the elements equal to x
RECURSIVE Without(_, _)
Without(s, x) ==
    IF Len(s) = 0 THEN <<>>
    ELSE (IF Head(s) = x THEN <<>> ELSE <<Head(s)>>) \o Without(Tail(s), x)

\* PackagingManager._find_loadable_components(root, exclude)
_find_loadable_components(st, root_path, exclude) ==
    Walk(st, PathParent(root_path), root_path, exclude, PathParent(root_path))

(***************************************************************************)
(* Validation of one package's dependencies.                               *)
(***************************************************************************)
\* PackagingManager._contains
_contains(root, component_name) ==
    LET parts_component == Split(component_name, Dot)
        parts_root == Split(root, Dot)
    IN  IF Len(parts_component) < Len(parts_root) THEN FALSE
        ELSE Join(SubSeq(parts_component, 1, Len(parts_root)), Dot) = root

\* PackagingManager._check_dependencies_exist: the exception it raises for
\* the first dependency that is not in _all_packages, "" when it returns
RECURSIVE _check_dependencies_exist(_, _)
_check_dependencies_exist(package_name, dependencies) ==
    IF Len(dependencies) = 0 THEN ""
    ELSE LET item == Head(dependencies)
         IN  IF ~InSeq(item, all_packages)
             THEN IF _is_ignored_package(item) THEN "PackageIsIgnoredError"
                  ELSE IF _is_disabled_package(disabled_packages, item)
                       THEN "PackageIsDisabledError"
                       ELSE "PackageNotExistedError"
             ELSE _check_dependencies_exist(package_name, Tail(dependencies))

\* a mutation of the loop of manager.py 402-417 that leaves out the look-up of
\* the reverse dependencies
RECURSIVE MutantCheckEachDependency(_, _, _)
MutantCheckEachDependency(package_name, dependencies, dm) ==
    IF Len(dependencies) = 0 THEN ""
    ELSE IF _contains(package_name, Head(dependencies))
         THEN "SubPackageDependencyDetectedError"
         ELSE MutantCheckEachDependency(package_name, Tail(dependencies), dm)

\* a mutation of the loop of manager.py 402-417 that leaves out the test of
\* manager.py 403
RECURSIVE MutantCheckWithoutContains(_, _, _)
MutantCheckWithoutContains(package_name, dependencies, dm) ==
    IF Len(dependencies) = 0 THEN ""
    ELSE IF Head(dependencies) \in DOMAIN dm /\ InSeq(package_name, dm[Head(dependencies)])
         THEN "CircularDependencyDetectedError"
         ELSE MutantCheckWithoutContains(package_name, Tail(dependencies), dm)

\* the loop of manager.py 402-417 over the dependencies, against the
\* dependency map dm: the exception of the first item that raises, or ""
RECURSIVE CheckEachDependency(_, _, _)
CheckEachDependency(package_name, dependencies, dm) ==
    IF Len(dependencies) = 0 THEN ""
    ELSE LET item == Head(dependencies)
         IN  IF _contains(package_name, item) THEN "SubPackageDependencyDetectedError"
             ELSE IF item \in DOMAIN dm /\ InSeq(package_name, dm[item])
                  THEN "CircularDependencyDetectedError"
                  ELSE CheckEachDependency(package_name, Tail(dependencies), dm)

\* a mutation of the assignment of manager.py 393 that removes the entry of a
\* package that already has one
MutantSetDependencies(dm, package_name, dependencies) ==
    IF package_name \in DOMAIN dm
    THEN [n \in DOMAIN dm \ {package_name} |-> dm[n]]
    ELSE [n \in DOMAIN dm \cup {package_name} |->
            IF n = package_name THEN dependencies ELSE dm[n]]

\* self._dependency_map[package_name] = dependencies
SetDependencies(dm, package_name, dependencies) ==
    [n \in DOMAIN dm \cup {package_name} |->
        IF n = package_name THEN dependencies ELSE dm[n]]

\* PackagingManager._validate_dependencies: [err: the exception raised or "",
\* map: the dependency map it leaves]
_validate_dependencies(package_name, dependencies) ==
    LET missing == _check_dependencies_exist(package_name, dependencies)
        dm == SetDependencies(dependency_map, package_name, dependencies)
    IN  IF missing # "" THEN [err |-> missing, map |-> dependency_map]
        ELSE IF Len(dependencies) <= 0 THEN [err |-> "", map |-> dm]
        ELSE IF InSeq(package_name, dependencies)
             THEN [err |-> "SelfDependencyDetectedError", map |-> dm]
             ELSE [err |-> CheckEachDependency(package_name, dependencies, dm), map |-> dm]

(***************************************************************************)
(* Readiness of a package.                                                 *)
(***************************************************************************)
\* a mutation of _is_dependencies_loaded that answers True for every list
Mutant_is_dependencies_loaded(dependencies) == TRUE

\* PackagingManager._is_dependencies_loaded
_is_dependencies_loaded(dependencies) ==
    \A i \in 1..Len(dependencies) : InSeq(dependencies[i], loaded_packages)

\* the parent_package computed by _is_parent_loaded (manager.py 858-868)
ParentPackage(package_name) ==
    LET items == Split(package_name, Dot)
    IN  IF Len(items) = 1 THEN items[1]
        ELSE Join(SubSeq(items, 1, Len(items) - 1), Dot)

\* a mutation of _is_parent_loaded that treats every package as a root package
Mutant_is_parent_loaded(package_name) == TRUE

\* PackagingManager._is_parent_loaded
_is_parent_loaded(package_name) ==
    IF ParentPackage(package_name) = package_name THEN TRUE
    ELSE _is_dependencies_loaded(<<ParentPackage(package_name)>>)

\* the test of manager.py 347-349
IsReady(package, dependencies) ==
    /\ (Len(dependencies) <= 0 \/ _is_dependencies_loaded(dependencies))
    /\ _is_parent_loaded(package)

(***************************************************************************)
(* Loading one package: _load_component.                                   *)
(***************************************************************************)
\* PackagingManager._merge_module_name
_merge_module_name(package_name, component_name) ==
    LET parts == Split(component_name, Dot)
    IN  _get_module_name(package_name, parts[Len(parts)])

\* self.load(name) followed by self._custom_load_module(name, module)
LoadModuleEvents(name) ==
    <<<<"load", name>>>> \o (IF module_loader THEN <<<<"custom", name>>>> ELSE <<>>)

RECURSIVE LoadRemaining(_, _)
LoadRemaining(module_names, component_module) ==
    IF Len(module_names) = 0 THEN <<>>
    ELSE (IF Head(module_names) # component_module
          THEN LoadModuleEvents(Head(module_names)) ELSE <<>>)
         \o LoadRemaining(Tail(module_names), component_module)

\* a mutation of _load_component that loads the modules in list order, the
\* component module at its place in the list
Mutant_load_component(package_name, module_names, component_name) ==
    [err |-> "",
     events |-> <<<<"load", package_name>>>> \o LoadRemaining(module_names, None)
                \o <<<<"append", package_name>>>>,
     loaded |-> TRUE]

\* a mutation of _load_component in which a base_component that is absent
\* from the module list is forced like a declared COMPONENT_NAME
Mutant_load_component_forced(package_name, module_names, component_name) ==
    LET name == IF component_name = None THEN base_component ELSE component_name
        component_module == IF name # None THEN _merge_module_name(package_name, name)
                            ELSE None
        first == <<<<"load", package_name>>>>
    IN  IF component_module # None /\ ~InSeq(component_module, module_names)
        THEN [err |-> "ComponentModuleNotFoundError", events |-> first, loaded |-> FALSE]
        ELSE [err |-> "",
              events |-> first
                  \o (IF component_module # None THEN LoadModuleEvents(component_module)
                      ELSE <<>>)
                  \o LoadRemaining(module_names, component_module)
                  \o <<<<"append", package_name>>>>,
              loaded |-> TRUE]

\* a mutation of _load_component that appends the package to
\* _loaded_packages before it loads the modules
Mutant_load_component_early(package_name, module_names, component_name) ==
    [err |-> "",
     events |-> <<<<"load", package_name>>, <<"append", package_name>>>>
                \o LoadRemaining(module_names, None),
     loaded |-> TRUE]

\* PackagingManager._load_component up to the append of manager.py 306:
\* [err, events: the loads and custom loads it makes in order and the append,
\* loaded: whether the package was appended to _loaded_packages]; the call of
\* _package_loaded that follows is the action _package_loaded
_load_component(package_name, module_names, component_name) ==
    LET force_component == component_name # None
        name == IF component_name = None THEN base_component ELSE component_name
        component_module == IF name # None THEN _merge_module_name(package_name, name)
                            ELSE None
        first == <<<<"load", package_name>>>>
    IN  IF component_module # None /\ ~InSeq(component_module, module_names)
           /\ force_component
        THEN [err |-> "ComponentModuleNotFoundError", events |-> first, loaded |-> FALSE]
        ELSE [err |-> "",
              events |-> first
                  \o (IF component_module # None /\ InSeq(component_module, module_names)
                      THEN LoadModuleEvents(component_module) ELSE <<>>)
                  \o LoadRemaining(module_names, component_module)
                  \o <<<<"append", package_name>>>>,
              loaded |-> TRUE]

(***************************************************************************)
(* load_components, step by step.  A thread is "idle" (not in a call),     *)
(* at "acquire" (past the first check, at `with self._lock`), at "find",   *)
(* "load", "package_loaded", "after" or "finish" inside the locked block,  *)
(* or "blocked" (at `with self._lock` of a nested call while it holds the  *)
(* lock itself).  frame.h is the position of the running `for hook in      *)
(* self._get_hooks()` loop in the list, which the loop reads at each turn. *)
(***************************************************************************)
Threads == 1..MaxThreads

NoFrame ==
    [ri |-> 0, ci |-> 0, sweep |-> <<>>, i |-> 0, dependent |-> <<>>, depth |-> 0, h |-> 0]

\* a mutation of the loops over self._get_hooks() that walks the list from
\* its end
MutantHookAt(h) == hooks[Len(hooks) + 1 - h]

\* the hook that `for hook in self._get_hooks()` yields at position h
HookAt(h) == hooks[h]

\* the frame at the start of _after_packages_loaded
AfterFrame == [NoFrame EXCEPT !.h = 1]

\* the hook instances that may be registered: instances of hook_type and not
HookInstances ==
    {[id |-> "h1", is_hook |-> TRUE], [id |-> "h2", is_hook |-> TRUE],
     [id |-> "o1", is_hook |-> FALSE]}

\* what a call that returns leaves in outcome
Returned == [result |-> "returned", loaded |-> loaded_packages]

\* the check of manager.py 164, outside the lock
FirstCheck == is_loaded

\* a mutation of the check under the lock: the flag is not read again
MutantSecondCheck == FALSE

\* the check of manager.py 168, under the lock
SecondCheck == is_loaded

\* load_components is called: the first check, then up to `with self._lock`
Call(t) ==
    /\ pc[t] = "idle"
    /\ calls[t] > 0
    /\ calls' = [calls EXCEPT ![t] = @ - 1]
    /\ IF FirstCheck
       THEN /\ outcome' = [outcome EXCEPT ![t] = Returned]
            /\ pc' = pc
       ELSE /\ pc' = [pc EXCEPT ![t] = "acquire"]
            /\ outcome' = [outcome EXCEPT ![t] = [result |-> "", loaded |-> <<>>]]
    /\ UNCHANGED <<singletonVars, registrations, confVars, passVars, is_loaded, hooks, lock, frame, hook_budget,
                   trace, passes>>

\* a mutation of _initialize that clears neither _loaded_packages nor
\* _components
MutantAcquire(t) ==
    /\ pc[t] = "acquire"
    /\ lock = 0
    /\ IF SecondCheck
       THEN /\ outcome' = [outcome EXCEPT ![t] = Returned]
            /\ pc' = [pc EXCEPT ![t] = "idle"]
            /\ UNCHANGED <<passVars, lock, frame, trace, passes>>
       ELSE /\ lock' = t
            /\ disabled_packages' = <<>>
            /\ not_packages' = <<>>
            /\ dependency_map' = <<>>
            /\ all_packages' = <<>>
            /\ UNCHANGED <<loaded_packages, components>>
            /\ pc' = [pc EXCEPT ![t] = "find"]
            /\ frame' = [NoFrame EXCEPT !.ri = 1]
            /\ trace' = <<>>
            /\ passes' = [passes EXCEPT !.started = @ + 1]
            /\ UNCHANGED outcome
    /\ UNCHANGED <<singletonVars, registrations, confVars, is_loaded, hooks, calls, hook_budget>>

\* the lock is taken; the second check; _initialize
Acquire(t) ==
    /\ pc[t] = "acquire"
    /\ lock = 0
    /\ IF SecondCheck
       THEN /\ outcome' = [outcome EXCEPT ![t] = Returned]
            /\ pc' = [pc EXCEPT ![t] = "idle"]
            /\ UNCHANGED <<passVars, lock, frame, trace, passes>>
       ELSE /\ lock' = t
            /\ disabled_packages' = <<>>
            /\ not_packages' = <<>>
            /\ dependency_map' = <<>>
            /\ all_packages' = <<>>
            /\ loaded_packages' = <<>>
            /\ components' = <<>>
            /\ pc' = [pc EXCEPT ![t] = "find"]
            /\ frame' = [NoFrame EXCEPT !.ri = 1]
            /\ trace' = <<>>
            /\ passes' = [passes EXCEPT !.started = @ + 1]
            /\ UNCHANGED outcome
    /\ UNCHANGED <<singletonVars, registrations, confVars, is_loaded, hooks, calls, hook_budget>>

\* a mutation of the first sweep that visits the packages of the root in
\* reverse discovery order
RECURSIVE MutantReversed(_)
MutantReversed(packages) ==
    IF Len(packages) = 0 THEN <<>>
    ELSE Append(MutantReversed(Tail(packages)), Head(packages))

MutantSweepOf(comps, ci) ==
    [NoFrame EXCEPT !.ci = ci, !.sweep = MutantReversed(comps[ci].packages), !.i = 1]

\* the frame of the first sweep over the components of root number ci
SweepOf(comps, ci) ==
    [NoFrame EXCEPT !.ci = ci, !.sweep = comps[ci].packages, !.i = 1]

\* one turn of the loop of manager.py 177-179
Find(t) ==
    /\ pc[t] = "find"
    /\ LET root == roots[frame.ri]
           st == _find_loadable_components(
                    [all |-> all_packages, disabled |-> disabled_packages,
                     notpk |-> not_packages, comps |-> components],
                    root, Without(roots, root))
       IN  /\ all_packages' = st.all
           /\ disabled_packages' = st.disabled
           /\ not_packages' = st.notpk
           /\ components' = st.comps
           /\ IF frame.ri < Len(roots)
              THEN /\ frame' = [frame EXCEPT !.ri = @ + 1]
                   /\ pc' = pc
              ELSE IF Len(st.comps) > 0
              THEN /\ frame' = SweepOf(st.comps, 1)
                   /\ pc' = [pc EXCEPT ![t] = "load"]
              ELSE /\ frame' = AfterFrame
                   /\ pc' = [pc EXCEPT ![t] = "after"]
    /\ UNCHANGED <<singletonVars, registrations, confVars, loaded_packages, dependency_map, is_loaded, hooks, lock,
                   outcome, calls, hook_budget, trace, passes>>

\* a mutation of the exit of the `with` block by an exception that leaves
\* the lock held
MutantRaise(t, err, package, events) ==
    /\ lock' = lock
    /\ pc' = [pc EXCEPT ![t] = "idle"]
    /\ frame' = NoFrame
    /\ trace' = trace \o events \o <<<<"raise", err, package>>>>
    /\ outcome' = [outcome EXCEPT ![t] = [result |-> err, loaded |-> loaded_packages]]
    /\ passes' = [passes EXCEPT !.failed = @ + 1]

\* an exception leaves the `with` block: the lock is released and the call ends
Raise(t, err, package, events) ==
    /\ lock' = 0
    /\ pc' = [pc EXCEPT ![t] = "idle"]
    /\ frame' = NoFrame
    /\ trace' = trace \o events \o <<<<"raise", err, package>>>>
    /\ outcome' = [outcome EXCEPT ![t] = [result |-> err, loaded |-> loaded_packages]]
    /\ passes' = [passes EXCEPT !.failed = @ + 1]

\* the outcome c of _load_component in an application where calls raise: the
\* first of its calls that raises ends it, with the exception of that call
LoadOutcome(c) ==
    LET bad == {k \in 1..Len(c.events) : c.events[k] \in failing}
        k == CHOOSE i \in bad : \A j \in bad : i <= j
    IN  IF bad = {} THEN c
        ELSE [err |-> IF c.events[k][1] = "load" THEN "ImportError" ELSE "ModuleLoaderError",
              events |-> SubSeq(c.events, 1, k),
              loaded |-> FALSE]

\* one turn of the loop of manager.py 335-361 for the package at frame.i, up
\* to the append of manager.py 306
Visit(t) ==
    /\ pc[t] = "load"
    /\ frame.i <= Len(frame.sweep)
    /\ LET package == frame.sweep[frame.i].name
           modules == frame.sweep[frame.i].modules
           dependencies == IF HasPackageClass(package) THEN pkg[package].DEPENDS ELSE <<>>
           v == _validate_dependencies(package, dependencies)
           component_name == IF HasPackageClass(package)
                             THEN pkg[package].COMPONENT_NAME ELSE None
           c == LoadOutcome(_load_component(package, modules, component_name))
       IN  /\ dependency_map' = v.map
           /\ IF v.err # ""
              THEN /\ Raise(t, v.err, package, <<>>)
                   /\ UNCHANGED loaded_packages
              ELSE IF ~IsReady(package, dependencies)
              THEN /\ frame' = [frame EXCEPT !.i = @ + 1,
                                  !.dependent = Append(@, frame.sweep[frame.i])]
                   /\ UNCHANGED <<loaded_packages, lock, pc, trace, outcome, passes>>
              ELSE IF c.err # ""
              THEN /\ Raise(t, c.err, package, c.events)
                   /\ UNCHANGED loaded_packages
              ELSE /\ loaded_packages' = Append(loaded_packages, package)
                   /\ trace' = trace \o c.events
                   /\ frame' = [frame EXCEPT !.h = 1]
                   /\ pc' = [pc EXCEPT ![t] = "package_loaded"]
                   /\ UNCHANGED <<lock, outcome, passes>>
    /\ UNCHANGED <<singletonVars, registrations, confVars, all_packages, disabled_packages, not_packages,
                   components, is_loaded, hooks, calls, hook_budget>>

\* PackagingManager._package_loaded, one turn of its loop: the hook at
\* frame.h is called, or the loop ends and so does _load_component
_package_loaded(t) ==
    /\ pc[t] = "package_loaded"
    /\ IF frame.h <= Len(hooks) /\ <<"package_loaded", HookAt(frame.h)>> \in failing
       THEN Raise(t, "HookError", frame.sweep[frame.i].name,
                  <<<<"package_loaded", HookAt(frame.h), frame.sweep[frame.i].name>>>>)
       ELSE IF frame.h <= Len(hooks)
       THEN /\ trace' = Append(trace, <<"package_loaded", HookAt(frame.h),
                                       frame.sweep[frame.i].name>>)
            /\ frame' = [frame EXCEPT !.h = @ + 1]
            /\ UNCHANGED <<pc, lock, outcome, passes>>
       ELSE /\ frame' = [frame EXCEPT !.h = 0, !.i = @ + 1]
            /\ pc' = [pc EXCEPT ![t] = "load"]
            /\ UNCHANGED <<trace, lock, outcome, passes>>
    /\ UNCHANGED <<singletonVars, registrations, confVars, passVars, is_loaded, hooks,
                   calls, hook_budget>>

\* the package_loaded of the hook at frame.h calls load_components again
ReenterFromPackageLoaded(t) ==
    /\ pc[t] = "package_loaded"
    /\ frame.h <= Len(hooks)
    /\ trace' = trace \o <<<<"package_loaded", HookAt(frame.h), frame.sweep[frame.i].name>>,
                           <<"reenter", HookAt(frame.h)>>>>
    /\ pc' = [pc EXCEPT ![t] = "blocked"]
    /\ UNCHANGED <<singletonVars, registrations, confVars, passVars, is_loaded, hooks, lock, frame,
                   outcome, calls, hook_budget, passes>>

\* a mutation of the recursive call that passes the dependent components in
\* reverse order
RECURSIVE MutantNextSweep(_)
MutantNextSweep(dependent_components) ==
    IF Len(dependent_components) = 0 THEN <<>>
    ELSE Append(MutantNextSweep(Tail(dependent_components)), Head(dependent_components))

\* the components of the recursive call of manager.py 365: the dictionary
\* dependent_components, which keeps the order of its insertions
NextSweep(dependent_components) == dependent_components

\* the end of one _load_components call (manager.py 363-365): the nested call
\* on the dependent components, or the return to the loop of manager.py 181
EndSweep(t) ==
    /\ pc[t] = "load"
    /\ frame.i > Len(frame.sweep)
    /\ IF Len(frame.dependent) > 0
       THEN IF frame.depth + 1 >= RecursionLimit
            THEN /\ Raise(t, "RecursionError", frame.dependent[1].name, <<>>)
                 /\ UNCHANGED loaded_packages
            ELSE /\ frame' = [frame EXCEPT !.sweep = NextSweep(frame.dependent), !.i = 1,
                                !.dependent = <<>>, !.depth = @ + 1]
                 /\ trace' = Append(trace, <<"sweep", frame.depth + 1>>)
                 /\ UNCHANGED <<loaded_packages, lock, pc, outcome, passes>>
       ELSE /\ IF frame.ci < Len(components)
               THEN /\ frame' = SweepOf(components, frame.ci + 1)
                    /\ pc' = pc
               ELSE /\ frame' = AfterFrame
                    /\ pc' = [pc EXCEPT ![t] = "after"]
            /\ UNCHANGED <<loaded_packages, lock, trace, outcome, passes>>
    /\ UNCHANGED <<singletonVars, registrations, confVars, all_packages, disabled_packages, not_packages,
                   dependency_map, components, is_loaded, hooks, calls, hook_budget>>

\* a mutation of load_components that sets _is_loaded before it calls
\* _after_packages_loaded
MutantAfterPackagesLoaded(t) ==
    /\ pc[t] = "after"
    /\ is_loaded' = TRUE
    /\ IF frame.h <= Len(hooks)
       THEN /\ trace' = Append(trace, <<"after_packages_loaded", HookAt(frame.h)>>)
            /\ frame' = [frame EXCEPT !.h = @ + 1]
            /\ UNCHANGED <<pc, lock, outcome, passes>>
       ELSE /\ frame' = NoFrame
            /\ pc' = [pc EXCEPT ![t] = "finish"]
            /\ UNCHANGED <<trace, lock, outcome, passes>>
    /\ UNCHANGED <<singletonVars, registrations, confVars, passVars, hooks, calls, hook_budget>>

\* PackagingManager._after_packages_loaded, one turn of its loop: the hook at
\* frame.h is called, or the loop ends
AfterPackagesLoaded(t) ==
    /\ pc[t] = "after"
    /\ IF frame.h <= Len(hooks) /\ <<"after_packages_loaded", HookAt(frame.h)>> \in failing
       THEN Raise(t, "HookError", <<>>, <<<<"after_packages_loaded", HookAt(frame.h)>>>>)
       ELSE IF frame.h <= Len(hooks)
       THEN /\ trace' = Append(trace, <<"after_packages_loaded", HookAt(frame.h)>>)
            /\ frame' = [frame EXCEPT !.h = @ + 1]
            /\ UNCHANGED <<pc, lock, outcome, passes>>
       ELSE /\ frame' = NoFrame
            /\ pc' = [pc EXCEPT ![t] = "finish"]
            /\ UNCHANGED <<trace, lock, outcome, passes>>
    /\ UNCHANGED <<singletonVars, registrations, confVars, passVars, is_loaded, hooks,
                   calls, hook_budget>>

\* the after_packages_loaded of the hook at frame.h calls load_components
\* again
ReenterFromAfterPackagesLoaded(t) ==
    /\ pc[t] = "after"
    /\ frame.h <= Len(hooks)
    /\ trace' = trace \o <<<<"after_packages_loaded", HookAt(frame.h)>>,
                           <<"reenter", HookAt(frame.h)>>>>
    /\ pc' = [pc EXCEPT ![t] = "blocked"]
    /\ UNCHANGED <<singletonVars, registrations, confVars, passVars, is_loaded, hooks, lock, frame,
                   outcome, calls, hook_budget, passes>>

\* self._is_loaded = True, the lock is released and the call returns
Finish(t) ==
    /\ pc[t] = "finish"
    /\ is_loaded' = TRUE
    /\ lock' = 0
    /\ pc' = [pc EXCEPT ![t] = "idle"]
    /\ outcome' = [outcome EXCEPT ![t] = Returned]
    /\ passes' = [passes EXCEPT !.completed = @ + 1]
    /\ UNCHANGED <<singletonVars, registrations, confVars, passVars, hooks, frame, calls, hook_budget, trace>>

\* a mutation of register_hook that puts the instance in front of the list
Mutant_register(hs, instance) == <<instance.id>> \o hs

\* self._hooks.append(instance)
_register(hs, instance) == Append(hs, instance.id)

\* HookMixin.register_hook(instance)
register_hook(instance) ==
    /\ hook_budget > 0
    /\ hook_budget' = hook_budget - 1
    /\ IF ~instance.is_hook
       THEN /\ registrations' = Append(registrations,
                                   [instance |-> instance.id,
                                    error |-> "InvalidPackagingHookTypeError"])
            /\ UNCHANGED hooks
       ELSE /\ hooks' = _register(hooks, instance)
            /\ registrations' = Append(registrations,
                                   [instance |-> instance.id, error |-> ""])
    /\ UNCHANGED <<singletonVars, confVars, passVars, is_loaded, lock, pc, frame, outcome,
                   calls, trace, passes>>

(***************************************************************************)
(* The singleton metaclasses of common/structs.py, on the hierarchy         *)
(* Base <- A <- B (the example of their docstrings).  Attribute look-up on *)
(* a class reads the class's own __dict__, then those of its bases in mro  *)
(* order, then the metaclass.                                              *)
(***************************************************************************)
Classes == {"Base", "A", "B"}

\* cls.__mro__, without object
Mro(cls) ==
    IF cls = "B" THEN <<"B", "A", "Base">>
    ELSE IF cls = "A" THEN <<"A", "Base">>
    ELSE <<"Base">>

\* cls._instance under UniqueSingletonMeta: the attribute of the first class
\* of the mro that has it in its __dict__, else the metaclass's None (0)
Unique_instance(cls) ==
    LET m == Mro(cls)
    IN  IF \E i \in 1..Len(m) : registry[m[i]] # 0
        THEN registry[m[CHOOSE i \in 1..Len(m) :
                           registry[m[i]] # 0 /\ \A j \in 1..(i - 1) : registry[m[j]] = 0]]
        ELSE 0

\* a mutation of UniqueSingletonMeta._has_instance that reads the class's own
\* __dict__ only
MutantUnique_has_instance(cls) == registry[cls] # 0

\* a mutation of MultiSingletonMeta._has_instance that takes the entry of a
\* base class for an entry of the class
MutantMulti_has_instance(cls) == Unique_instance(cls) # 0

\* UniqueSingletonMeta._has_instance
Unique_has_instance(cls) == Unique_instance(cls) # 0

\* MultiSingletonMeta._has_instance
Multi_has_instance(cls) == registry[cls] # 0

\* cls._has_instance()
_has_instance(cls) ==
    IF policy = "unique" THEN Unique_has_instance(cls) ELSE Multi_has_instance(cls)

\* cls._get_instance(): cls._instance, or cls._instances.get(cls)
_get_instance(cls) ==
    IF policy = "unique" THEN Unique_instance(cls) ELSE registry[cls]

\* cls._register_instance(instance): cls._instance = instance sets the
\* attribute on cls itself; cls._instances[cls] = instance sets the entry
_register_instance(cls, instance) == [registry EXCEPT ![cls] = instance]

\* a mutation of the check under the lock: the registry is not read again
MutantHasInstanceUnderLock(cls) == FALSE

\* the check of structs.py 22, under the lock
HasInstanceUnderLock(cls) == _has_instance(cls)

\* a mutation of os.path.isdir that takes every path for a directory
Mutant_isdir(path) == TRUE

\* os.path.isdir(path)
isdir(path) == path \in DOMAIN fs

\* the exception the check of the roots in PackagingManager.__init__ raises
\* on the arguments root, "" when it raises none
__init__(root) ==
    IF \E i \in 1..Len(root) : ~isdir(root[i]) THEN "InvalidRootPathError" ELSE ""

\* the root arguments of the calls: an existing directory, alone or followed
\* by a path that is not a directory
RootArguments == {<<<<"/", "p", "/", "a">>>>, <<<<"/", "p", "/", "a">>, <<"/", "p", "/", "q">>>>}

\* cls(*root) is called: the check of structs.py 20, outside the lock
Request(t, cls) ==
    /\ call_pc[t] = "idle"
    /\ requests[t] > 0
    /\ requests' = [requests EXCEPT ![t] = @ - 1]
    /\ call_cls' = [call_cls EXCEPT ![t] = cls]
    /\ \E root \in RootArguments : call_roots' = [call_roots EXCEPT ![t] = root]
    /\ call_result' = [call_result EXCEPT ![t] = 0]
    /\ call_error' = [call_error EXCEPT ![t] = ""]
    /\ call_pc' = [call_pc EXCEPT ![t] = IF _has_instance(cls) THEN "return" ELSE "lock"]
    /\ UNCHANGED <<managerVars, policy, registry, meta_lock, call_instance, constructed>>

\* `with cls._lock` and the check of structs.py 22
Enter(t) ==
    /\ call_pc[t] = "lock"
    /\ meta_lock = 0
    /\ IF HasInstanceUnderLock(call_cls[t])
       THEN /\ call_pc' = [call_pc EXCEPT ![t] = "return"]
            /\ UNCHANGED meta_lock
       ELSE /\ call_pc' = [call_pc EXCEPT ![t] = "construct"]
            /\ meta_lock' = t
    /\ UNCHANGED <<managerVars, policy, registry, call_cls, call_result, call_instance,
                   requests, constructed, call_roots, call_error>>

\* instance = super().__call__(*args, **kwargs): __init__ returns, or it
\* raises, the exception leaves `with cls._lock`, which releases the lock,
\* and propagates to the caller
Construct(t) ==
    /\ call_pc[t] = "construct"
    /\ IF __init__(call_roots[t]) # ""
       THEN /\ call_error' = [call_error EXCEPT ![t] = __init__(call_roots[t])]
            /\ meta_lock' = 0
            /\ call_pc' = [call_pc EXCEPT ![t] = "idle"]
            /\ UNCHANGED <<constructed, call_instance>>
       ELSE /\ constructed' = Append(constructed, call_cls[t])
            /\ call_instance' = [call_instance EXCEPT ![t] = Len(constructed) + 1]
            /\ call_pc' = [call_pc EXCEPT ![t] = "register"]
            /\ UNCHANGED <<meta_lock, call_error>>
    /\ UNCHANGED <<managerVars, policy, registry, call_cls, call_result, requests, call_roots>>

\* cls._register_instance(instance), and the lock is released
Register(t) ==
    /\ call_pc[t] = "register"
    /\ registry' = _register_instance(call_cls[t], call_instance[t])
    /\ call_instance' = [call_instance EXCEPT ![t] = 0]
    /\ meta_lock' = 0
    /\ call_pc' = [call_pc EXCEPT ![t] = "return"]
    /\ UNCHANGED <<managerVars, policy, call_cls, call_result, requests, constructed,
                   call_roots, call_error>>

\* return cls._get_instance()
Return(t) ==
    /\ call_pc[t] = "return"
    /\ call_result' = [call_result EXCEPT ![t] = _get_instance(call_cls[t])]
    /\ call_pc' = [call_pc EXCEPT ![t] = "idle"]
    /\ UNCHANGED <<managerVars, policy, registry, meta_lock, call_cls, call_instance,
                   requests, constructed, call_roots, call_error>>

\* no class of the hierarchy has been called
InitSingletons ==
    /\ registry = [cls \in Classes |-> 0]
    /\ meta_lock = 0
    /\ call_pc = [t \in Threads |-> "idle"]
    /\ call_cls = [t \in Threads |-> "Base"]
    /\ call_result = [t \in Threads |-> 0]
    /\ call_instance = [t \in Threads |-> 0]
    /\ constructed = <<>>
    /\ call_roots = [t \in Threads |-> <<>>]
    /\ call_error = [t \in Threads |-> ""]

(***************************************************************************)
(* The applications the manager is run on.                                 *)
(***************************************************************************)
\* a dotted name and an absolute path, from their segments
Name(segments) == Join(segments, Dot)
Path(segments) == Join(<<<<>>>> \o segments, Slash)

\* one-character directory names
dP == <<"p">>
dA == <<"a">>
dB == <<"b">>
dX == <<"x">>
dY == <<"y">>
dZ == <<"z">>
dW == <<"w">>
dQ == <<"q">>

\* module files
FileM == <<"m", ".", "p", "y">>
FileN == <<"n", ".", "p", "y">>

Dir(kids, files) == [kids |-> kids, files |-> files]

\* one root /p/a holding the packages a, a.x, a.y and a.x.z; os.walk lists the
\* sub-directories of /p/a in the order kidsOfA
TreeOneRoot(kidsOfA) ==
    (Path(<<dP>>) :> Dir(<<dA>>, <<>>))
    @@ (Path(<<dP, dA>>) :> Dir(kidsOfA, <<InitPy>>))
    @@ (Path(<<dP, dA, dX>>) :> Dir(<<dZ>>, <<InitPy, FileM, FileN>>))
    @@ (Path(<<dP, dA, dY>>) :> Dir(<<>>, <<FileM, InitPy>>))
    @@ (Path(<<dP, dA, dX, dZ>>) :> Dir(<<>>, <<InitPy>>))

UnitsOneRoot == {Name(<<dA>>), Name(<<dA, dX>>), Name(<<dA, dY>>), Name(<<dA, dX, dZ>>)}

\* two roots /p/a and /p/b holding the packages a, a.x and b, b.w
TreeTwoRoots ==
    (Path(<<dP>>) :> Dir(<<dA, dB>>, <<>>))
    @@ (Path(<<dP, dA>>) :> Dir(<<dX>>, <<InitPy>>))
    @@ (Path(<<dP, dA, dX>>) :> Dir(<<>>, <<InitPy, FileM>>))
    @@ (Path(<<dP, dB>>) :> Dir(<<dW>>, <<InitPy>>))
    @@ (Path(<<dP, dB, dW>>) :> Dir(<<>>, <<InitPy, FileM>>))

\* one root /p/a holding the packages a, a.x and a.y only
TreeSiblings(kidsOfA) ==
    (Path(<<dP>>) :> Dir(<<dA>>, <<>>))
    @@ (Path(<<dP, dA>>) :> Dir(kidsOfA, <<InitPy>>))
    @@ (Path(<<dP, dA, dX>>) :> Dir(<<>>, <<InitPy, FileM>>))
    @@ (Path(<<dP, dA, dY>>) :> Dir(<<>>, <<InitPy, FileM>>))

UnitsSiblings == {Name(<<dA>>), Name(<<dA, dX>>), Name(<<dA, dY>>)}

UnitsTwoRoots == {Name(<<dA>>), Name(<<dA, dX>>), Name(<<dB>>), Name(<<dB, dW>>)}

\* a name no directory has
MissingName == Name(<<dA, dQ>>)

\* a Package subclass that declares only DEPENDS
Depends(dependencies) ==
    [DEPENDS |-> dependencies, IS_ENABLED |-> TRUE, COMPONENT_NAME |-> None]

\* the Package subclasses of an application in which the packages of `units`
\* declare the dependency lists d[u]; a package with nothing to declare
\* defines no subclass
Packages(units, d) ==
    [u \in {w \in units : d[w] # <<>>} |-> Depends(d[u])]

\* the declarations over `units`: every package declares at most one
\* dependency, or one package declares two
Declarations(units) ==
    LET targets == units \cup {MissingName}
        single == {<<>>} \cup {<<x>> : x \in targets}
    IN  [units -> single]
        \cup {[u \in units |-> IF u = c[1] THEN <<c[2], c[3]>> ELSE <<>>] :
                 c \in {k \in units \X targets \X targets : k[2] # k[3]}}

\* the file systems and roots
Layouts ==
    {[fs |-> TreeSiblings(<<dX, dY>>), roots |-> <<Path(<<dP, dA>>)>>, units |-> UnitsSiblings],
     [fs |-> TreeSiblings(<<dY, dX>>), roots |-> <<Path(<<dP, dA>>)>>, units |-> UnitsSiblings],
     [fs |-> TreeOneRoot(<<dX, dY>>), roots |-> <<Path(<<dP, dA>>)>>, units |-> UnitsOneRoot],
     [fs |-> TreeOneRoot(<<dY, dX>>), roots |-> <<Path(<<dP, dA>>)>>, units |-> UnitsOneRoot],
     [fs |-> TreeTwoRoots, roots |-> <<Path(<<dP, dA>>), Path(<<dP, dB>>)>>,
      units |-> UnitsTwoRoots],
     [fs |-> TreeTwoRoots, roots |-> <<Path(<<dP, dB>>), Path(<<dP, dA>>)>>,
      units |-> UnitsTwoRoots]}

\* the fields of the manager after construction, whatever the application
InitFields ==
    /\ is_loaded = FALSE
    /\ all_packages = <<>>
    /\ loaded_packages = <<>>
    /\ disabled_packages = <<>>
    /\ not_packages = <<>>
    /\ dependency_map = <<>>
    /\ components = <<>>
    /\ hooks = <<>>
    /\ lock = 0
    /\ pc = [t \in Threads |-> "idle"]
    /\ frame = NoFrame
    /\ outcome = [t \in Threads |-> [result |-> "", loaded |-> <<>>]]
    /\ trace = <<>>
    /\ passes = [started |-> 0, completed |-> 0, failed |-> 0]
    /\ registrations = <<>>

\* the manager after construction; no class of the singleton hierarchy is
\* called
InitState ==
    /\ InitSingletons
    /\ policy = "multi"
    /\ requests = [t \in Threads |-> 0]
    /\ InitFields

\* a manager constructed without ignore lists, ignored detector and base
\* component
InitManager ==
    /\ failing = {}
    /\ ignored_packages = <<>>
    /\ ignored_modules = <<>>
    /\ ignored_detector = {}
    /\ base_component = None
    /\ InitState

\* one thread calls load_components, on every application of Declarations
InitOneCaller ==
    /\ InitManager
    /\ \E l \in Layouts : \E d \in Declarations(l.units) :
          /\ fs = l.fs
          /\ roots = l.roots
          /\ pkg = Packages(l.units, d)
    /\ module_loader = FALSE
    /\ calls = [t \in Threads |-> IF t = 1 THEN MaxCalls ELSE 0]
    /\ hook_budget = 0

\* the applications the threads race on: no dependency; a dependency on a
\* package discovered later; two packages that depend on each other; a cycle
\* of three; a dependency across roots
RacedApplications ==
    LET one == [fs |-> TreeOneRoot(<<dX, dY>>), roots |-> <<Path(<<dP, dA>>)>>]
        two == [fs |-> TreeTwoRoots, roots |-> <<Path(<<dP, dA>>), Path(<<dP, dB>>)>>]
        ax == Name(<<dA, dX>>)
        ay == Name(<<dA, dY>>)
        axz == Name(<<dA, dX, dZ>>)
        bw == Name(<<dB, dW>>)
    IN  {[l |-> one, pkg |-> <<>>],
         [l |-> one, pkg |-> (ax :> Depends(<<ay>>))],
         [l |-> one, pkg |-> (ax :> Depends(<<ay>>)) @@ (ay :> Depends(<<ax>>))],
         [l |-> one, pkg |-> (ax :> Depends(<<ay>>)) @@ (ay :> Depends(<<axz>>))
                              @@ (axz :> Depends(<<ax>>))],
         [l |-> two, pkg |-> (ax :> Depends(<<bw>>))]}

\* every thread calls load_components, hooks are registered meanwhile
InitManyCallers ==
    /\ InitManager
    /\ \E app \in RacedApplications :
          /\ fs = app.l.fs
          /\ roots = app.l.roots
          /\ pkg = app.pkg
    /\ module_loader = TRUE
    /\ calls = [t \in Threads |-> MaxCalls]
    /\ hook_budget = MaxHooks

\* a name with the name of package a.x as a string prefix; only the
\* applications of InitPrefixed have a directory of that name
PrefixName == Name(<<dA, dX \o dQ>>)

\* the ignore lists, the answers of the ignored detector and the packages
\* that declare ENABLED = False, in the applications with filters
IgnoreLists ==
    {<<>>, <<Name(<<dA, dX, <<"*">>>>)>>, <<Name(<<dA, dY>>)>>, <<Name(<<<<"*">>, dY>>)>>}

DetectorAnswers ==
    {{}, {<<Name(<<dA, dX>>), FALSE>>}, {<<Name(<<dA, dX, dZ>>), FALSE>>}}

DisabledSets == {{}, {Name(<<dA, dX>>)}, {Name(<<dA, dY>>)}}

\* the dependency lists declared in the applications with filters: one or two
\* names, discovered, filtered out or missing
FilteredDependencies ==
    LET targets == {Name(<<dA, dX>>), Name(<<dA, dY>>), Name(<<dA, dX, dZ>>),
                    MissingName, PrefixName}
    IN  {<<>>} \cup {<<x>> : x \in targets}
        \cup {<<k[1], k[2]>> : k \in {c \in targets \X targets : c[1] # c[2]}}

\* the Package subclasses of an application in which the packages of
\* `disabled` declare ENABLED = False and package w declares DEPENDS = deps
FilteredPackages(disabled, w, deps) ==
    [u \in disabled \cup (IF deps # <<>> THEN {w} ELSE {}) |->
        [DEPENDS |-> IF u = w THEN deps ELSE <<>>,
         IS_ENABLED |-> u \notin disabled,
         COMPONENT_NAME |-> None]]

\* one thread calls load_components once on an application with an ignore
\* list, an ignored detector and disabled packages
InitFiltered ==
    /\ InitState
    /\ failing = {}
    /\ base_component = None
    /\ fs = TreeOneRoot(<<dX, dY>>)
    /\ roots = <<Path(<<dP, dA>>)>>
    /\ ignored_packages \in IgnoreLists
    /\ ignored_detector \in DetectorAnswers
    /\ ignored_modules = <<>>
    /\ \E disabled \in DisabledSets : \E w \in UnitsOneRoot : \E deps \in FilteredDependencies :
          pkg = FilteredPackages(disabled, w, deps)
    /\ module_loader = FALSE
    /\ calls = [t \in Threads |-> IF t = 1 THEN 1 ELSE 0]
    /\ hook_budget = 0

\* one thread calls load_components once on an application of three
\* packages while hooks are registered
InitHooked ==
    /\ InitManager
    /\ fs = TreeSiblings(<<dX, dY>>)
    /\ roots = <<Path(<<dP, dA>>)>>
    /\ pkg = <<>>
    /\ module_loader = FALSE
    /\ calls = [t \in Threads |-> IF t = 1 THEN 1 ELSE 0]
    /\ hook_budget = MaxRegistrations

\* the component names an application configures or declares: none, the
\* second and the first module of package a.x, a dotted name whose last part
\* is the second module, and a name no module has
mM == <<"m">>
mN == <<"n">>
ComponentNames == {None, mN, mM, Name(<<dX, mN>>), dQ}

\* one thread calls load_components once on an application whose package a.x
\* (modules a.x.m and a.x.n, listed in that order) may declare COMPONENT_NAME,
\* with or without base_component, module_loader and an ignored module
InitComponents ==
    /\ InitState
    /\ failing = {}
    /\ fs = TreeOneRoot(<<dX, dY>>)
    /\ roots = <<Path(<<dP, dA>>)>>
    /\ ignored_packages = <<>>
    /\ ignored_detector = {}
    /\ ignored_modules \in {<<>>, <<mN>>}
    /\ base_component \in ComponentNames
    /\ \E cn \in ComponentNames :
          pkg = IF cn = None THEN <<>>
                ELSE (Name(<<dA, dX>>) :>
                        [DEPENDS |-> <<>>, IS_ENABLED |-> TRUE, COMPONENT_NAME |-> cn])
    /\ module_loader \in BOOLEAN
    /\ calls = [t \in Threads |-> IF t = 1 THEN 1 ELSE 0]
    /\ hook_budget = 0

\* the sets of calls that raise: the import of a module, module_loader on a
\* module, package_loaded of a hook, after_packages_loaded of the first or of
\* the second hook
FailingSets ==
    {{<<"load", Name(<<dA, dX, mM>>)>>}, {<<"custom", Name(<<dA, dY, mM>>)>>},
     {<<"package_loaded", "h1">>}, {<<"after_packages_loaded", "h1">>},
     {<<"after_packages_loaded", "h2">>}}

\* one thread calls load_components, up to MaxCalls times, on an application
\* of three packages in which one call raises, while hooks are registered
InitFaulty ==
    /\ InitState
    /\ failing \in FailingSets
    /\ ignored_packages = <<>>
    /\ ignored_modules = <<>>
    /\ ignored_detector = {}
    /\ base_component = None
    /\ fs = TreeSiblings(<<dX, dY>>)
    /\ roots = <<Path(<<dP, dA>>)>>
    /\ pkg = <<>>
    /\ module_loader = TRUE
    /\ calls = [t \in Threads |-> IF t = 1 THEN MaxCalls ELSE 0]
    /\ hook_budget = 2

\* directory names with a sibling's name as a string prefix
dXQ == dX \o dQ
dAB == dA \o dB

\* one root /p/a in which /p/a/x has no __init__.py and its sibling /p/a/xq
\* has one; /p/a/x/z has one too
TreeNotPackage(kidsOfA) ==
    (Path(<<dP>>) :> Dir(<<dA>>, <<>>))
    @@ (Path(<<dP, dA>>) :> Dir(kidsOfA, <<InitPy>>))
    @@ (Path(<<dP, dA, dX>>) :> Dir(<<dZ>>, <<FileM>>))
    @@ (Path(<<dP, dA, dX, dZ>>) :> Dir(<<>>, <<InitPy>>))
    @@ (Path(<<dP, dA, dXQ>>) :> Dir(<<>>, <<InitPy, FileM>>))

\* one root /p/a holding the packages a, a.x and a.xq
TreePrefixSiblings(kidsOfA) ==
    (Path(<<dP>>) :> Dir(<<dA>>, <<>>))
    @@ (Path(<<dP, dA>>) :> Dir(kidsOfA, <<InitPy>>))
    @@ (Path(<<dP, dA, dX>>) :> Dir(<<>>, <<InitPy, FileM>>))
    @@ (Path(<<dP, dA, dXQ>>) :> Dir(<<>>, <<InitPy, FileM>>))

\* the directories /p/a and /p/ab holding the packages a, a.x and ab, ab.w
TreePrefixRoots(kidsOfP) ==
    (Path(<<dP>>) :> Dir(kidsOfP, <<>>))
    @@ (Path(<<dP, dA>>) :> Dir(<<dX>>, <<InitPy>>))
    @@ (Path(<<dP, dA, dX>>) :> Dir(<<>>, <<InitPy, FileM>>))
    @@ (Path(<<dP, dAB>>) :> Dir(<<dW>>, <<InitPy>>))
    @@ (Path(<<dP, dAB, dW>>) :> Dir(<<>>, <<InitPy, FileM>>))

UnitsPrefixed ==
    {Name(<<dA>>), Name(<<dA, dX>>), Name(<<dA, dXQ>>), Name(<<dA, dX, dZ>>),
     Name(<<dAB>>), Name(<<dAB, dW>>)}

\* the applications with prefix-named directories: the file system, the
\* roots, the ignore list, the detector's answers and the disabled packages
PrefixedApplications ==
    {[fs |-> TreeNotPackage(k), roots |-> <<Path(<<dP, dA>>)>>, ignored |-> <<>>,
      detector |-> {}, disabled |-> {}] : k \in {<<dX, dXQ>>, <<dXQ, dX>>}}
    \cup
    {[fs |-> TreePrefixSiblings(k), roots |-> <<Path(<<dP, dA>>)>>, ignored |-> f.i,
      detector |-> f.d, disabled |-> f.e] :
        k \in {<<dX, dXQ>>, <<dXQ, dX>>},
        f \in {[i |-> <<>>, d |-> {}, e |-> {}],
               [i |-> <<Name(<<dA, dX>>)>>, d |-> {}, e |-> {}],
               [i |-> <<>>, d |-> {<<Name(<<dA, dX>>), FALSE>>}, e |-> {}],
               [i |-> <<>>, d |-> {}, e |-> {Name(<<dA, dX>>)}]}}
    \cup
    {[fs |-> TreePrefixRoots(k), roots |-> r, ignored |-> <<>>, detector |-> {},
      disabled |-> {}] :
        k \in {<<dA, dAB>>, <<dAB, dA>>},
        r \in {<<Path(<<dP, dA>>), Path(<<dP, dAB>>)>>, <<Path(<<dP, dAB>>), Path(<<dP, dA>>)>>,
               <<Path(<<dP, dA>>)>>, <<Path(<<dP, dAB>>)>>}}

\* one thread calls load_components once on an application in which the name
\* of a directory is a string prefix of the name of a sibling
InitPrefixed ==
    /\ InitState
    /\ failing = {}
    /\ base_component = None
    /\ ignored_modules = <<>>
    /\ \E app \in PrefixedApplications :
          /\ fs = app.fs
          /\ roots = app.roots
          /\ ignored_packages = app.ignored
          /\ ignored_detector = app.detector
          /\ pkg = FilteredPackages(app.disabled, Name(<<dA>>), <<>>)
    /\ module_loader = FALSE
    /\ calls = [t \in Threads |-> IF t = 1 THEN 1 ELSE 0]
    /\ hook_budget = 0

Init ==
    \/ InitOneCaller \/ InitManyCallers \/ InitFiltered \/ InitHooked \/ InitComponents
    \/ InitFaulty \/ InitPrefixed

Next ==
    \/ \E t \in Threads : Call(t)
    \/ \E t \in Threads : Acquire(t)
    \/ \E t \in Threads : Find(t)
    \/ \E t \in Threads : Visit(t)
    \/ \E t \in Threads : _package_loaded(t)
    \/ \E t \in Threads : ReenterFromPackageLoaded(t)
    \/ \E t \in Threads : EndSweep(t)
    \/ \E t \in Threads : AfterPackagesLoaded(t)
    \/ \E t \in Threads : ReenterFromAfterPackagesLoaded(t)
    \/ \E t \in Threads : Finish(t)
    \/ \E instance \in HookInstances : register_hook(instance)

Spec == Init /\ [][Next]_vars

\* the threads call the classes of a singleton hierarchy, under either
\* metaclass; load_components is not called
SingletonInit ==
    /\ InitSingletons
    /\ policy \in {"unique", "multi"}
    /\ requests = [t \in Threads |-> MaxRequests]
    /\ failing = {}
    /\ ignored_packages = <<>>
    /\ ignored_modules = <<>>
    /\ ignored_detector = {}
    /\ base_component = None
    /\ fs = TreeSiblings(<<dX, dY>>)
    /\ roots = <<Path(<<dP, dA>>)>>
    /\ pkg = <<>>
    /\ module_loader = FALSE
    /\ calls = [t \in Threads |-> 0]
    /\ hook_budget = 0
    /\ InitFields

SingletonNext ==
    \/ \E t \in Threads : \E cls \in Classes : Request(t, cls)
    \/ \E t \in Threads : Enter(t)
    \/ \E t \in Threads : Construct(t)
    \/ \E t \in Threads : Register(t)
    \/ \E t \in Threads : Return(t)

SingletonSpec == SingletonInit /\ [][SingletonNext]_vars

(***************************************************************************)
(* Vocabulary of the properties.                                           *)
(***************************************************************************)
\* the dependency list a package declares
Declared(u) == IF HasPackageClass(u) THEN pkg[u].DEPENDS ELSE <<>>

\* u stands before v in the list s
Before(u, v, s) == InSeq(u, s) /\ InSeq(v, s) /\ IndexOf(u, s) < IndexOf(v, s)

\* the last pass ended in an exception and no pass was started since
PassFailed == Len(trace) > 0 /\ trace[Len(trace)][1] = "raise"

\* the exception that ended the last pass and the package it was raised for
FailedWith == trace[Len(trace)][2]
FailedAt == trace[Len(trace)][3]

\* the exceptions _validate_dependencies raises
ValidationErrors ==
    {"PackageIsIgnoredError", "PackageIsDisabledError", "PackageNotExistedError",
     "SelfDependencyDetectedError", "SubPackageDependencyDetectedError",
     "CircularDependencyDetectedError"}

\* the number of the root under which discovery recorded package u (0: none)
RootOf(u) ==
    IF \E r \in 1..Len(components) :
          \E j \in 1..Len(components[r].packages) : components[r].packages[j].name = u
    THEN CHOOSE r \in 1..Len(components) :
          \E j \in 1..Len(components[r].packages) : components[r].packages[j].name = u
    ELSE 0

(***************************************************************************)
(* C1.  In every reachable state, for all packages U and V: if V is in the *)
(* dependency list U declares and U is in _loaded_packages, then V is in   *)
(* _loaded_packages at a strictly smaller index than U.                    *)
(***************************************************************************)
C1_DependenciesLoadedFirst ==
    \A u \in DOMAIN pkg :
        InSeq(u, loaded_packages) =>
            \A i \in 1..Len(pkg[u].DEPENDS) :
                Before(pkg[u].DEPENDS[i], u, loaded_packages)

\* a package that was discovered before the package it depends on is loaded
C1_Witness ==
    \E u \in DOMAIN pkg :
        /\ InSeq(u, loaded_packages)
        /\ Len(pkg[u].DEPENDS) > 0
        /\ Before(u, pkg[u].DEPENDS[1], all_packages)

(***************************************************************************)
(* C2.  In every reachable state, a package whose name has more than one   *)
(* segment is in _loaded_packages only if its parent (the name without its *)
(* last segment) is there at a smaller index; a package with a one-segment *)
(* name is always taken to have a loaded parent.                           *)
(***************************************************************************)
C2_ParentLoadedFirst ==
    /\ \A i \in 1..Len(loaded_packages) :
          LET segments == Split(loaded_packages[i], Dot)
          IN  Len(segments) > 1 =>
                 \E j \in 1..(i - 1) :
                    loaded_packages[j] = Join(SubSeq(segments, 1, Len(segments) - 1), Dot)
    /\ \A i \in 1..Len(all_packages) :
          Len(Split(all_packages[i], Dot)) = 1 => _is_parent_loaded(all_packages[i])

\* a package is loaded whose parent had to wait for a package discovered
\* after it, and a root package was discovered while nothing was loaded
C2_Witness ==
    \E i \in 1..Len(loaded_packages) :
        LET parent == ParentPackage(loaded_packages[i])
        IN  /\ parent # loaded_packages[i]
            /\ HasPackageClass(parent)
            /\ Len(pkg[parent].DEPENDS) > 0
            /\ Before(parent, pkg[parent].DEPENDS[1], all_packages)

(***************************************************************************)
(* C3.  For any number of calls of load_components on one manager, issued  *)
(* one after the other or from several threads at once, the sequence       *)
(* _initialize, _find_loadable_components, _load_components,               *)
(* _after_packages_loaded is executed exactly once in total.               *)
(* As claimed: no second sequence is ever started.                         *)
(***************************************************************************)
C3_ExactlyOneSequence == passes.started <= 1

(***************************************************************************)
(* C3, amended.  The sequence runs to completion at most once and two runs *)
(* never overlap: a run is started only under the lock by a call that      *)
(* finds _is_loaded False, so a further run starts only after every        *)
(* earlier one ended in an exception, and none starts once one completed.  *)
(* Every caller that returned normally did so after the completed run and  *)
(* observes the same _loaded_packages.                                     *)
(***************************************************************************)
C3_AtMostOneCompletedSequence ==
    /\ passes.completed <= 1
    /\ passes.started = passes.completed + passes.failed + (IF lock # 0 THEN 1 ELSE 0)
    /\ is_loaded => (lock = 0 /\ passes.completed = 1)
    /\ \A t \in Threads :
          outcome[t].result = "returned" =>
              /\ passes.completed = 1
              /\ outcome[t].loaded = loaded_packages

\* a thread that passed the first check while the pass was running stands at
\* the lock after the pass completed and another caller returned
C3_Witness ==
    \E t \in Threads : \E o \in Threads :
        /\ pc[t] = "acquire"
        /\ is_loaded
        /\ outcome[o].result = "returned"
        /\ Len(loaded_packages) > 0

(***************************************************************************)
(* C4.  Once _is_loaded is True, every step of a call of load_components   *)
(* returns without taking the lock and leaves _all_packages,               *)
(* _loaded_packages, _disabled_packages, _not_packages, the dependency     *)
(* map, the component table and the hook list unchanged, and calls no      *)
(* hook.                                                                   *)
(***************************************************************************)
C4_LoadedCallsAreNoOps ==
    [][(is_loaded /\ (pc' # pc \/ calls' # calls \/ outcome' # outcome)) =>
          /\ UNCHANGED <<passVars, hooks, trace, is_loaded, lock, passes, frame>>
          /\ \A t \in Threads : pc'[t] \in {pc[t], "idle"}]_vars

\* the manager is loaded, a hook is registered, and every thread has made all
\* its calls, so that calls were made after the pass completed
C4_Witness ==
    /\ is_loaded
    /\ Len(hooks) > 0
    /\ \A t \in Threads : calls[t] = 0 /\ pc[t] = "idle" /\ outcome[t].result = "returned"

(***************************************************************************)
(* C5.  A call of load_components made by the thread that is executing the *)
(* pass (from a hook's package_loaded or after_packages_loaded) returns    *)
(* without starting a second pass and without blocking forever: no thread  *)
(* ever waits for the lock it holds itself.                                *)
(***************************************************************************)
C5_ReentrantCallReturns == \A t \in Threads : pc[t] # "blocked"

(***************************************************************************)
(* C6.  Every load pass terminates, whatever the discovered packages and   *)
(* their dependencies (cycles of three or more and cycles through the      *)
(* parent relation included): under a single root, a sweep of              *)
(* _load_components that loads no package is never followed by another     *)
(* sweep over the same deferred set.                                       *)
(***************************************************************************)
C6_EverySweepMakesProgress ==
    [][(Len(roots) = 1 /\ frame'.depth > frame.depth) => frame'.sweep # frame.sweep]_vars

(***************************************************************************)
(* C7.  With two or more roots, a package discovered under one root that   *)
(* depends on a package discovered under another root, whichever root is   *)
(* configured first, is loaded after it and the pass completes: when that  *)
(* dependency is the only one declared, no call ends in an exception.      *)
(***************************************************************************)
C7_CrossRootDependencyLoads ==
    \A u \in DOMAIN pkg :
        (/\ DOMAIN pkg = {u}
         /\ Len(pkg[u].DEPENDS) = 1
         /\ RootOf(u) # 0
         /\ RootOf(pkg[u].DEPENDS[1]) # 0
         /\ RootOf(u) # RootOf(pkg[u].DEPENDS[1]))
        => /\ ~PassFailed
           /\ is_loaded => Before(pkg[u].DEPENDS[1], u, loaded_packages)

\* package w declares a dependency that validation rejects
Faulty(w) ==
    \E i \in 1..Len(Declared(w)) :
        LET d == Declared(w)[i]
        IN  \/ ~InSeq(d, all_packages)
            \/ d = w
            \/ _contains(w, d)
            \/ InSeq(w, Declared(d))

\* the modules discovery recorded for package u
ModulesOfUnit(u) ==
    UNION {Range(components[r].packages[j].modules) :
             <<r, j>> \in {k \in (1..Len(components)) \X (1..Len(all_packages)) :
                             /\ k[2] <= Len(components[k[1]].packages)
                             /\ components[k[1]].packages[k[2]].name = u}}

(***************************************************************************)
(* C8.  For every discovered package U whose dependency list contains U's  *)
(* own name (every other declaration being valid), the pass fails during   *)
(* the validation of U, and by then no module of U has been loaded, the    *)
(* module loader has been called for none of them, and U is not in         *)
(* _loaded_packages.                                                       *)
(***************************************************************************)
C8_SelfDependencyFailsValidation ==
    \A u \in DOMAIN pkg :
        (/\ InSeq(u, pkg[u].DEPENDS)
         /\ InSeq(u, all_packages)
         /\ \A w \in DOMAIN pkg \ {u} : ~Faulty(w))
        => /\ ~InSeq(u, loaded_packages)
           /\ ~is_loaded
           /\ \A k \in 1..Len(trace) :
                 trace[k][1] \in {"load", "custom"} => trace[k][2] \notin ModulesOfUnit(u)
           /\ PassFailed => (FailedAt = u /\ FailedWith \in ValidationErrors)

(***************************************************************************)
(* C9.  For any two discovered packages A and B, neither inside the other, *)
(* that list each other in their dependency lists (every other declaration *)
(* being valid), under any order of discovery and any roots, the pass      *)
(* fails with CircularDependencyDetectedError raised for one of them, and  *)
(* neither is ever in _loaded_packages.                                    *)
(***************************************************************************)
C9_MutualDependencyFailsCircular ==
    \A a \in DOMAIN pkg : \A b \in DOMAIN pkg \ {a} :
        (/\ pkg[a].DEPENDS = <<b>>
         /\ pkg[b].DEPENDS = <<a>>
         /\ InSeq(a, all_packages)
         /\ InSeq(b, all_packages)
         /\ ~_contains(a, b)
         /\ ~_contains(b, a)
         /\ \A w \in DOMAIN pkg \ {a, b} : ~Faulty(w))
        => /\ ~InSeq(a, loaded_packages)
           /\ ~InSeq(b, loaded_packages)
           /\ ~is_loaded
           /\ PassFailed => (/\ FailedWith = "CircularDependencyDetectedError"
                             /\ FailedAt \in {a, b})

\* the application of the scenario: the single root /p/a (for /app) holds the
\* root package a and the packages a.x and a.y (for app.a and app.b), which
\* depend on each other
MutualSiblings ==
    /\ roots = <<Path(<<dP, dA>>)>>
    /\ fs \in {TreeSiblings(<<dX, dY>>), TreeSiblings(<<dY, dX>>)}
    /\ DOMAIN pkg = {Name(<<dA, dX>>), Name(<<dA, dY>>)}
    /\ pkg[Name(<<dA, dX>>)].DEPENDS = <<Name(<<dA, dY>>)>>
    /\ pkg[Name(<<dA, dY>>)].DEPENDS = <<Name(<<dA, dX>>)>>

(***************************************************************************)
(* C10.  With the single root holding two packages that depend on each     *)
(* other, load_components fails with the circular-dependency error and     *)
(* _loaded_packages is empty when the error propagates to the caller.      *)
(* As claimed.                                                             *)
(***************************************************************************)
C10_LoadedEmptyAtFailure ==
    (MutualSiblings /\ PassFailed) =>
        /\ FailedWith = "CircularDependencyDetectedError"
        /\ loaded_packages = <<>>

(***************************************************************************)
(* C10, amended.  With the single root holding the root package and two    *)
(* packages that depend on each other, load_components fails with the      *)
(* circular-dependency error, raised for the one of the two discovered     *)
(* second; when the error propagates neither of the two is in              *)
(* _loaded_packages, which holds exactly the root package, loaded earlier  *)
(* in the same sweep.                                                      *)
(***************************************************************************)
C10_OnlyRootLoadedAtFailure ==
    MutualSiblings =>
        /\ ~is_loaded
        /\ ~InSeq(Name(<<dA, dX>>), loaded_packages)
        /\ ~InSeq(Name(<<dA, dY>>), loaded_packages)
        /\ PassFailed =>
              /\ FailedWith = "CircularDependencyDetectedError"
              /\ FailedAt = all_packages[3]
              /\ loaded_packages = <<Name(<<dA>>)>>
        /\ \A t \in Threads :
              outcome[t].result \notin {"", "CircularDependencyDetectedError"} => FALSE
        /\ \A t \in Threads :
              outcome[t].result = "CircularDependencyDetectedError" =>
                  outcome[t].loaded = <<Name(<<dA>>)>>

\* the pass over the scenario's application has failed
C10_Witness == MutualSiblings /\ PassFailed

\* package d is a strict descendant of package u: the segments of u are a
\* proper prefix of the segments of d
StrictDescendant(u, d) == d # u /\ _contains(u, d)

\* discovered package u declares a dependency on one of its strict descendants
DependsOnDescendant(u) ==
    /\ InSeq(u, all_packages)
    /\ \E i \in 1..Len(Declared(u)) : StrictDescendant(u, Declared(u)[i])

(***************************************************************************)
(* C11.  For every discovered package U whose dependency list contains the *)
(* name of a strict descendant of U, the validation of U always fails with *)
(* SubPackageDependencyDetectedError, whatever other entries the list      *)
(* contains and in whatever order.  As claimed.                            *)
(***************************************************************************)
C11_AlwaysSubPackageError ==
    \A u \in DOMAIN pkg :
        (DependsOnDescendant(u) /\ PassFailed /\ FailedAt = u)
        => FailedWith = "SubPackageDependencyDetectedError"

(***************************************************************************)
(* C11, amended.  For every discovered package U whose dependency list     *)
(* contains the name of a strict descendant of U, the validation of U      *)
(* always fails and U is never loaded.  The exception is                   *)
(* SubPackageDependencyDetectedError when every entry of the list is in    *)
(* _all_packages, U is not an entry itself and no entry that stands before *)
(* the first descendant declares U as a dependency; otherwise it is the    *)
(* exception of the check that comes first (existence, self, circular).    *)
(***************************************************************************)
C11_SubPackageErrorUnlessPreempted ==
    \A u \in DOMAIN pkg :
        DependsOnDescendant(u) =>
            /\ ~InSeq(u, loaded_packages)
            /\ ~is_loaded
            /\ (PassFailed /\ FailedAt = u) =>
                  /\ FailedWith \in ValidationErrors
                  /\ LET deps == Declared(u)
                         first == CHOOSE i \in 1..Len(deps) :
                                     /\ StrictDescendant(u, deps[i])
                                     /\ \A j \in 1..(i - 1) : ~StrictDescendant(u, deps[j])
                     IN  (/\ \A i \in 1..Len(deps) : InSeq(deps[i], all_packages)
                          /\ ~InSeq(u, deps)
                          /\ \A j \in 1..(first - 1) : ~InSeq(u, Declared(deps[j])))
                         => FailedWith = "SubPackageDependencyDetectedError"

\* the validation of a package that depends on a descendant and, before it in
\* the list, on another discovered package has raised the sub-package error
C11_Witness ==
    \E u \in DOMAIN pkg :
        /\ DependsOnDescendant(u)
        /\ Len(Declared(u)) = 2
        /\ InSeq(Declared(u)[1], all_packages)
        /\ ~StrictDescendant(u, Declared(u)[1])
        /\ PassFailed
        /\ FailedAt = u
        /\ FailedWith = "SubPackageDependencyDetectedError"

\* the index of the first entry of u's dependency list that is not in
\* _all_packages (0 when every entry is)
FirstMissing(u) ==
    LET deps == Declared(u)
    IN  IF \A i \in 1..Len(deps) : InSeq(deps[i], all_packages) THEN 0
        ELSE CHOOSE i \in 1..Len(deps) :
                /\ ~InSeq(deps[i], all_packages)
                /\ \A j \in 1..(i - 1) : InSeq(deps[j], all_packages)

\* name d is a disabled package or lies in the subtree of one, by segments
InDisabledSubtree(d) ==
    \E i \in 1..Len(disabled_packages) : _contains(disabled_packages[i], d)

\* the exception for a dependency d that is not in _all_packages, by the
\* priority ignored, disabled (directly or by subtree), not existed
MissingKind(d) ==
    IF _is_ignored_package(d) THEN "PackageIsIgnoredError"
    ELSE IF InDisabledSubtree(d) THEN "PackageIsDisabledError"
    ELSE "PackageNotExistedError"

(***************************************************************************)
(* C12.  For every dependency name D, not in _all_packages, of a package   *)
(* being validated, validation fails and the exception is chosen by this   *)
(* priority: PackageIsIgnoredError if D matches the ignore rules, else     *)
(* PackageIsDisabledError if D is a disabled package or in the subtree of  *)
(* one, else PackageNotExistedError; the check comes before the self,      *)
(* sub-package and circular checks and before the dependency map is        *)
(* written.  D is the first such entry of the list.                        *)
(***************************************************************************)
C12_MissingDependencyErrorKind ==
    \A u \in DOMAIN pkg :
        (InSeq(u, all_packages) /\ FirstMissing(u) # 0) =>
            /\ ~InSeq(u, loaded_packages)
            /\ u \notin DOMAIN dependency_map
            /\ (PassFailed /\ FailedAt = u) =>
                  FailedWith = MissingKind(Declared(u)[FirstMissing(u)])

\* the names of the packages the file systems hold
AllUnits == UnitsSiblings \cup UnitsOneRoot \cup UnitsTwoRoots \cup UnitsPrefixed

\* name n matches an entry of the ignore list: the entry is a string prefix
\* of it, or equals it segment by segment with `*` for any one segment, the
\* entry having no more segments than the name
MatchesIgnoreList(n) ==
    \E i \in 1..Len(ignored_packages) :
        \/ StartsWith(n, ignored_packages[i])
        \/ _is_equal(ignored_packages[i], n)

\* package n is in the component table
InComponents(n) == RootOf(n) # 0

(***************************************************************************)
(* C13.  A discovered package whose name matches an entry of the ignore    *)
(* list is never added to _all_packages or to the component table and is   *)
(* never loaded, and any package that declares it as a dependency fails    *)
(* validation with PackageIsIgnoredError.  As claimed.                     *)
(***************************************************************************)
C13_IgnoredDependencyIsIgnoredError ==
    \A n \in AllUnits : \A u \in DOMAIN pkg :
        (/\ MatchesIgnoreList(n)
         /\ InSeq(u, all_packages)
         /\ InSeq(n, Declared(u))
         /\ PassFailed
         /\ FailedAt = u)
        => FailedWith = "PackageIsIgnoredError"

(***************************************************************************)
(* C13, amended.  A discovered package whose name matches an entry of the  *)
(* ignore list is never added to _all_packages or to the component table   *)
(* and is never loaded; any package that declares it as a dependency fails *)
(* validation and is never loaded, with PackageIsIgnoredError when the     *)
(* ignored name is the first entry of the list that is not in              *)
(* _all_packages, and otherwise with the exception of that first entry.    *)
(***************************************************************************)
C13_IgnoredPackageExcluded ==
    \A n \in AllUnits :
        MatchesIgnoreList(n) =>
            /\ ~InSeq(n, all_packages)
            /\ ~InComponents(n)
            /\ ~InSeq(n, loaded_packages)
            /\ \A u \in DOMAIN pkg :
                  (InSeq(u, all_packages) /\ InSeq(n, Declared(u))) =>
                      /\ ~InSeq(u, loaded_packages)
                      /\ ~is_loaded
                      /\ (PassFailed /\ FailedAt = u) =>
                            /\ FailedWith \in {"PackageIsIgnoredError", "PackageIsDisabledError",
                                               "PackageNotExistedError"}
                            /\ Declared(u)[FirstMissing(u)] = n
                                  => FailedWith = "PackageIsIgnoredError"

\* the ignore list holds a.x.*; a.x is discovered, a.x.z is left out, and the
\* validation of a package that depends on a.x.z has raised
C13_Witness ==
    /\ ignored_packages = <<Name(<<dA, dX, <<"*">>>>)>>
    /\ ignored_detector = {}
    /\ InSeq(Name(<<dA, dX>>), all_packages)
    /\ ~InSeq(Name(<<dA, dX, dZ>>), all_packages)
    /\ PassFailed
    /\ \E u \in DOMAIN pkg : Declared(u) = <<Name(<<dA, dX, dZ>>)>> /\ FailedAt = u
    /\ FailedWith = "PackageIsIgnoredError"

\* the directory of package n, and whether the file system holds it
DirOf(n) == PathJoin(Path(<<dP>>), Replace(n, <<Dot>>, <<Slash>>))

OnDisk(n) == DirOf(n) \in DOMAIN fs

\* package A is on disk and declares ENABLED = False
DeclaresDisabled(A) == OnDisk(A) /\ HasPackageClass(A) /\ ~pkg[A].IS_ENABLED

\* name n is in none of _all_packages, the component table, _loaded_packages
Absent(n) == ~InSeq(n, all_packages) /\ ~InComponents(n) /\ ~InSeq(n, loaded_packages)

(***************************************************************************)
(* C14.  If a discovered package A declares ENABLED = False, then A and    *)
(* every discovered package whose name has the segments of A as a prefix   *)
(* are absent from _all_packages, from the component table and from        *)
(* _loaded_packages at the end of discovery and in every later state of    *)
(* the pass.                                                               *)
(***************************************************************************)
C14_DisabledSubtreeExcluded ==
    \A A \in AllUnits : \A n \in AllUnits :
        (DeclaresDisabled(A) /\ OnDisk(n) /\ _contains(A, n)) => Absent(n)

\* the instances constructed by calls of class cls
InstancesOf(cls) == {i \in 1..Len(constructed) : constructed[i] = cls}

\* thread t has called a class and the call has returned
HasReturned(t) == call_pc[t] = "idle" /\ requests[t] < MaxRequests /\ call_error[t] = ""

(***************************************************************************)
(* C15.  For any number of threads that call the same class for the first  *)
(* time at once, in every interleaving of the check outside the lock, the  *)
(* lock, the check under the lock and the registration of                  *)
(* SingletonMetaBase.__call__, the constructor runs at most once for the   *)
(* class and every caller receives the same, registered instance.          *)
(***************************************************************************)
C15_ConstructedAtMostOnce ==
    /\ \A cls \in Classes : Cardinality(InstancesOf(cls)) <= 1
    /\ \A t \in Threads :
          HasReturned(t) =>
              /\ call_result[t] # 0
              /\ call_result[t] = _get_instance(call_cls[t])
    /\ \A t \in Threads : \A o \in Threads :
          (HasReturned(t) /\ HasReturned(o) /\ call_cls[t] = call_cls[o])
          => call_result[t] = call_result[o]
    /\ meta_lock # 0 => call_pc[meta_lock] \in {"construct", "register"}

\* a thread that found no instance at the check outside the lock stands at
\* the lock, while another thread has constructed and registered the
\* instance of the same class and released the lock
C15_Witness ==
    \E t \in Threads : \E o \in Threads \ {t} :
        /\ call_pc[t] = "lock"
        /\ call_pc[o] = "return"
        /\ call_cls[t] = call_cls[o]
        /\ meta_lock = 0
        /\ InstancesOf(call_cls[t]) # {}
        /\ registry[call_cls[t]] # 0

(***************************************************************************)
(* C16.  Under UniqueSingletonMeta, after any sequence of calls of the     *)
(* root class and its descendant classes, in any order, exactly one        *)
(* instance exists in total and every call returns that instance.          *)
(* As claimed.                                                             *)
(***************************************************************************)
C16_OneInstanceInAnyOrder ==
    policy = "unique" =>
        /\ Len(constructed) <= 1
        /\ \A t \in Threads : HasReturned(t) => call_result[t] = 1

(***************************************************************************)
(* C16, amended.  Under UniqueSingletonMeta a call of class T returns the  *)
(* instance registered on the first class of T's mro that has one, and T   *)
(* is constructed at most once.  When the first class constructed is the   *)
(* root, exactly one instance exists in total and every call of the root   *)
(* or of a descendant returns it.  A descendant that is called before its  *)
(* ancestors registers its own instance, which its own descendants share;  *)
(* a later call of an ancestor constructs another instance.                *)
(***************************************************************************)
C16_OneInstanceWhenRootFirst ==
    policy = "unique" =>
        /\ \A cls \in Classes : Cardinality(InstancesOf(cls)) <= 1
        /\ \A t \in Threads :
              HasReturned(t) =>
                  /\ call_result[t] # 0
                  /\ call_result[t] = Unique_instance(call_cls[t])
                  /\ constructed[call_result[t]] \in Range(Mro(call_cls[t]))
        /\ (Len(constructed) > 0 /\ constructed[1] = "Base") =>
              /\ Len(constructed) = 1
              /\ \A t \in Threads : HasReturned(t) => call_result[t] = 1

\* the root was constructed first, and a call of the root and a call of a
\* descendant have both returned its instance
C16_Witness ==
    /\ policy = "unique"
    /\ constructed = <<"Base">>
    /\ \E t \in Threads : \E o \in Threads :
          /\ HasReturned(t) /\ call_cls[t] = "Base" /\ call_result[t] = 1
          /\ HasReturned(o) /\ call_cls[o] = "B" /\ call_result[o] = 1

(***************************************************************************)
(* C17.  Under MultiSingletonMeta and its subclasses, after any sequence   *)
(* of calls, each class has at most one instance, repeated calls of one    *)
(* class return the same instance, and calls of two different classes of   *)
(* the hierarchy return different instances, whichever was constructed     *)
(* first.                                                                  *)
(***************************************************************************)
C17_OneInstancePerClass ==
    policy = "multi" =>
        /\ \A cls \in Classes : Cardinality(InstancesOf(cls)) <= 1
        /\ \A t \in Threads :
              HasReturned(t) =>
                  /\ call_result[t] # 0
                  /\ call_result[t] = registry[call_cls[t]]
                  /\ constructed[call_result[t]] = call_cls[t]
        /\ \A t \in Threads : \A o \in Threads :
              (HasReturned(t) /\ HasReturned(o)) =>
                  (call_cls[t] = call_cls[o] <=> call_result[t] = call_result[o])

\* a descendant was constructed before the root, and the calls of the two
\* classes have returned different instances
C17_Witness ==
    /\ policy = "multi"
    /\ Len(constructed) >= 2
    /\ constructed[1] = "A"
    /\ \E t \in Threads : \E o \in Threads :
          /\ HasReturned(t) /\ call_cls[t] = "Base"
          /\ HasReturned(o) /\ call_cls[o] = "A"
          /\ call_result[t] # call_result[o]
          /\ call_result[o] = 1

\* the instances of the calls of register_hook that returned, in order
RECURSIVE Accepted(_)
Accepted(regs) ==
    IF Len(regs) = 0 THEN <<>>
    ELSE (IF Head(regs).error = "" THEN <<Head(regs).instance>> ELSE <<>>)
         \o Accepted(Tail(regs))

\* the instance with this id is an instance of hook_type
IsHookInstance(id) == \E instance \in HookInstances : instance.id = id /\ instance.is_hook

(***************************************************************************)
(* C18.  register_hook(instance) appends the instance to the end of _hooks *)
(* if and only if it is an instance of hook_type; otherwise it raises      *)
(* invalid_hook_type_error and leaves _hooks unchanged.  After any         *)
(* sequence of calls, _hooks is the accepted instances in the order of     *)
(* their registration.                                                     *)
(***************************************************************************)
C18_HooksAreAcceptedInOrder ==
    /\ hooks = Accepted(registrations)
    /\ \A i \in 1..Len(registrations) :
          /\ registrations[i].error = "" <=> IsHookInstance(registrations[i].instance)
          /\ registrations[i].error \in {"", "InvalidPackagingHookTypeError"}

\* two hooks were registered, with a rejected instance between them
C18_Witness ==
    /\ Len(registrations) = 3
    /\ registrations[1].instance = "h2"
    /\ registrations[2].instance = "o1"
    /\ registrations[2].error = "InvalidPackagingHookTypeError"
    /\ registrations[3].instance = "h1"
    /\ hooks = <<"h2", "h1">>

\* s is a prefix of r
IsPrefix(s, r) == Len(s) <= Len(r) /\ SubSeq(r, 1, Len(s)) = s

\* the hooks whose package_loaded was called for package p, in the order of
\* the calls in the history tr
RECURSIVE PackageLoadedCalls(_, _)
PackageLoadedCalls(p, tr) ==
    IF Len(tr) = 0 THEN <<>>
    ELSE (IF Head(tr)[1] = "package_loaded" /\ Head(tr)[3] = p
          THEN <<Head(tr)[2]>> ELSE <<>>)
         \o PackageLoadedCalls(p, Tail(tr))

\* the hooks whose after_packages_loaded was called, in the order of the calls
RECURSIVE AfterPackagesLoadedCalls(_)
AfterPackagesLoadedCalls(tr) ==
    IF Len(tr) = 0 THEN <<>>
    ELSE (IF Head(tr)[1] = "after_packages_loaded" THEN <<Head(tr)[2]>> ELSE <<>>)
         \o AfterPackagesLoadedCalls(Tail(tr))

(***************************************************************************)
(* C19.  Each broadcast (package_loaded for a package, and                 *)
(* after_packages_loaded for the pass) calls the method on every hook      *)
(* registered at that moment, once per registration, in registration       *)
(* order: while a broadcast runs, the hooks called so far are the first    *)
(* hooks of _hooks in order, and when it ends they are the whole of        *)
(* _hooks as it stands then.                                               *)
(***************************************************************************)
C19_BroadcastInRegistrationOrder ==
    [][/\ \A i \in 1..Len(loaded_packages') :
             IsPrefix(PackageLoadedCalls(loaded_packages'[i], trace'), hooks')
       /\ IsPrefix(AfterPackagesLoadedCalls(trace'), hooks')
       /\ \A t \in Threads :
             (pc[t] = "package_loaded" /\ pc'[t] = "load") =>
                 PackageLoadedCalls(frame.sweep[frame.i].name, trace') = hooks'
       /\ \A t \in Threads :
             (pc[t] = "after" /\ pc'[t] = "finish") =>
                 AfterPackagesLoadedCalls(trace') = hooks']_vars

\* the pass has completed with two different hooks registered, the second of
\* them while the pass ran: the broadcast for the first package reached one
\* hook, the broadcast for the last package and the final broadcast both
\* hooks, in the order of registration
C19_Witness ==
    /\ is_loaded
    /\ Len(hooks) = 2
    /\ hooks[1] # hooks[2]
    /\ Len(loaded_packages) = 3
    /\ PackageLoadedCalls(loaded_packages[1], trace) = <<hooks[1]>>
    /\ PackageLoadedCalls(loaded_packages[3], trace) = hooks
    /\ AfterPackagesLoadedCalls(trace) = hooks

(***************************************************************************)
(* The order of the loads of one package.                                  *)
(***************************************************************************)
\* the module _load_component loads first for a package: the COMPONENT_NAME of
\* its Package class, else base_component, merged with the package name; None
\* when neither is set
FirstModuleOf(package_name) ==
    LET declared == IF HasPackageClass(package_name)
                    THEN pkg[package_name].COMPONENT_NAME ELSE None
        name == IF declared = None THEN base_component ELSE declared
    IN  IF name = None THEN None ELSE _merge_module_name(package_name, name)

\* the names of the events of one kind in a piece of the trace, in order
RECURSIVE NamesOf(_, _)
NamesOf(kind, events) ==
    IF Len(events) = 0 THEN <<>>
    ELSE (IF Head(events)[1] = kind THEN <<Head(events)[2]>> ELSE <<>>)
         \o NamesOf(kind, Tail(events))

\* what one call of _load_component that returns adds to the trace, for the
\* package at frame.i: the load of the package and the append excluded
ModuleEventsOfStep == SubSeq(trace', Len(trace) + 2, Len(trace') - 1)

\* C20: whenever _load_component returns for a package whose first module
\* (COMPONENT_NAME, else base_component) is in the package's module list, the
\* modules it loaded are the first module followed by the other modules of
\* the list in list order, every module of the list is loaded exactly once,
\* and with a module_loader configured each load is immediately followed by
\* the callback for the same module and by nothing else (without one, no
\* callback is made)
C20_FirstModuleLoadsFirst ==
    [][\A t \in Threads :
         (pc[t] = "load" /\ pc'[t] = "package_loaded")
         => LET package == frame.sweep[frame.i].name
                module_names == frame.sweep[frame.i].modules
                first == FirstModuleOf(package)
                loads == NamesOf("load", ModuleEventsOfStep)
                customs == NamesOf("custom", ModuleEventsOfStep)
            IN  InSeq(first, module_names)
                => /\ Len(loads) > 0 /\ loads[1] = first
                   /\ Without(loads, first) = Without(module_names, first)
                   /\ \A m \in Range(module_names) :
                         Cardinality({i \in 1..Len(loads) : loads[i] = m}) = 1
                   /\ Len(loads) = Len(module_names)
                   /\ IF module_loader
                      THEN /\ customs = loads
                           /\ Len(ModuleEventsOfStep) = 2 * Len(loads)
                           /\ \A i \in 1..Len(loads) :
                                 /\ ModuleEventsOfStep[2 * i - 1] = <<"load", loads[i]>>
                                 /\ ModuleEventsOfStep[2 * i] = <<"custom", loads[i]>>
                      ELSE customs = <<>> /\ ModuleEventsOfStep = [i \in 1..Len(loads) |->
                                                                     <<"load", loads[i]>>]]_vars

\* a pass with a module_loader has loaded package a.x, whose COMPONENT_NAME
\* names its second module: a.x.n was loaded and passed to the callback before
\* a.x.m
C20_Witness ==
    /\ module_loader
    /\ HasPackageClass(Name(<<dA, dX>>))
    /\ pkg[Name(<<dA, dX>>)].COMPONENT_NAME = mN
    /\ InSeq(Name(<<dA, dX>>), loaded_packages)
    /\ \E i \in 1..Len(trace) :
          /\ i + 5 <= Len(trace)
          /\ SubSeq(trace, i, i + 5)
               = <<<<"load", Name(<<dA, dX>>)>>,
                   <<"load", Name(<<dA, dX, mN>>)>>, <<"custom", Name(<<dA, dX, mN>>)>>,
                   <<"load", Name(<<dA, dX, mM>>)>>, <<"custom", Name(<<dA, dX, mM>>)>>,
                   <<"append", Name(<<dA, dX>>)>>>>

(***************************************************************************)
(* A first module that the package does not have.                          *)
(***************************************************************************)
\* the COMPONENT_NAME the Package class of a package declares, None without
\* a class or a declaration
DeclaredComponent(package_name) ==
    IF HasPackageClass(package_name) THEN pkg[package_name].COMPONENT_NAME ELSE None

\* what one step adds to the trace
EventsOfStep == SubSeq(trace', Len(trace) + 1, Len(trace'))

\* the step is a call of _load_component by thread t for the package at
\* frame.i: it begins with the load of the package
CallsLoadComponent(t) ==
    /\ pc[t] = "load"
    /\ frame.i <= Len(frame.sweep)
    /\ Len(trace') > Len(trace)
    /\ trace'[Len(trace) + 1] = <<"load", frame.sweep[frame.i].name>>

\* C21: a call of _load_component for a package whose declared COMPONENT_NAME
\* names a module absent from its module list raises
\* ComponentModuleNotFoundError after the load of the package alone: no module
\* is loaded, the package is not appended to _loaded_packages, _package_loaded
\* is not entered; when only base_component names an absent module the call
\* raises nothing and loads the modules of the list in list order
C21_MissingFirstModule ==
    [][\A t \in Threads :
         CallsLoadComponent(t)
         => LET package == frame.sweep[frame.i].name
                module_names == frame.sweep[frame.i].modules
                declared == DeclaredComponent(package)
            IN  /\ (declared # None
                    /\ ~InSeq(_merge_module_name(package, declared), module_names))
                   => /\ EventsOfStep = <<<<"load", package>>,
                                          <<"raise", "ComponentModuleNotFoundError", package>>>>
                      /\ loaded_packages' = loaded_packages
                      /\ ~InSeq(package, loaded_packages')
                      /\ pc'[t] = "idle"
                      /\ outcome'[t].result = "ComponentModuleNotFoundError"
                /\ (declared = None /\ base_component # None
                    /\ ~InSeq(_merge_module_name(package, base_component), module_names))
                   => /\ pc'[t] = "package_loaded"
                      /\ loaded_packages' = Append(loaded_packages, package)
                      /\ NamesOf("load", ModuleEventsOfStep) = module_names
                      /\ NamesOf("raise", EventsOfStep) = <<>>]_vars

\* a pass with a base_component that package a does not have loaded a, and
\* then failed on package a.x, which declares a COMPONENT_NAME it does not have
C21_Witness ==
    /\ base_component # None
    /\ PassFailed
    /\ trace[Len(trace)] = <<"raise", "ComponentModuleNotFoundError", Name(<<dA, dX>>)>>
    /\ loaded_packages = <<Name(<<dA>>)>>
    /\ DeclaredComponent(Name(<<dA, dX>>)) = dQ

(***************************************************************************)
(* Construction with a root that is not a directory.                       *)
(***************************************************************************)
\* the root arguments of thread t's call include a path that is not an
\* existing directory
HasMissingRoot(t) == \E i \in 1..Len(call_roots[t]) : call_roots[t][i] \notin DOMAIN fs

\* the call of thread t has ended, by a return or by an exception
HasEnded(t) == call_pc[t] = "idle" /\ requests[t] < MaxRequests

\* C22, as claimed: every call of the class whose root arguments include a
\* path that is not an existing directory ends with InvalidRootPathError,
\* whether or not an instance is registered
C22_MissingRootAlwaysFails ==
    \A t \in Threads :
        (HasEnded(t) /\ HasMissingRoot(t)) => call_error[t] = "InvalidRootPathError"

\* C22, amended: the roots are checked only when the constructor runs.  A
\* call that reaches the constructor with a root that is not a directory
\* ends with InvalidRootPathError, registers nothing and releases the lock; a
\* call made while an instance is registered returns that instance whatever
\* its arguments; no call with existing roots fails, and the lock is never
\* left held by a call that has ended
C22_MissingRootFailsInConstructor ==
    [][/\ \A t \in Threads :
            (call_pc[t] = "construct" /\ call_pc'[t] # "construct")
            => IF HasMissingRoot(t)
               THEN /\ call_error'[t] = "InvalidRootPathError"
                    /\ call_pc'[t] = "idle"
                    /\ registry' = registry
                    /\ constructed' = constructed
                    /\ meta_lock' = 0
               ELSE /\ call_error'[t] = ""
                    /\ constructed' = Append(constructed, call_cls[t])
                    /\ call_pc'[t] = "register"
       /\ \A t \in Threads :
            (call_pc[t] = "return" /\ call_pc'[t] = "idle")
            => /\ call_error'[t] = ""
               /\ call_result'[t] # 0
               /\ call_result'[t] = _get_instance(call_cls[t])
       /\ \A t \in Threads :
            (call_pc[t] = "idle" /\ call_pc'[t] # "idle" /\ _has_instance(call_cls'[t]))
            => call_pc'[t] = "return"
       /\ \A t \in Threads :
            call_error'[t] # "" => (HasMissingRoot(t)' /\ call_pc'[t] = "idle")
       /\ meta_lock' # 0 => call_pc'[meta_lock'] \in {"construct", "register"}]_vars

\* a call of a class with a root that is not a directory failed, and a later
\* call of the same class with existing roots constructed and returned the
\* instance
C22_Witness ==
    /\ policy = "multi"
    /\ \E t \in Threads : \E o \in Threads \ {t} :
          /\ HasEnded(t) /\ call_error[t] = "InvalidRootPathError"
          /\ HasEnded(o) /\ call_error[o] = "" /\ ~HasMissingRoot(o)
          /\ call_cls[o] = call_cls[t]
          /\ call_result[o] = registry[call_cls[o]]
          /\ call_result[o] # 0
          /\ meta_lock = 0

(***************************************************************************)
(* A pass that raises.                                                     *)
(***************************************************************************)
\* the step ends thread t's call of load_components by an exception
RaisesIn(t) ==
    /\ pc[t] # "idle"
    /\ pc'[t] = "idle"
    /\ Len(trace') > 0
    /\ trace'[Len(trace')][1] = "raise"
    /\ trace' # trace

\* C23, as claimed: after any step of a pass has raised, the manager is not
\* loaded, the lock is free and after_packages_loaded was not called on any
\* hook in that pass
C23_FailedPassNeverBroadcastsAfter ==
    PassFailed =>
        /\ ~is_loaded
        /\ lock = 0
        /\ AfterPackagesLoadedCalls(trace) = <<>>

\* C23, amended: a step of a pass that raises ends the call with that
\* exception and releases the lock; from then until a later call starts a new
\* pass _is_loaded is False, the lock is free and nothing more is loaded or
\* called; after_packages_loaded was called in the pass only when the
\* exception comes from the after_packages_loaded of a hook, and then on that
\* hook and the hooks registered before it
C23_FailedPassIsTerminal ==
    [][/\ \A t \in Threads :
            RaisesIn(t)
            => /\ outcome'[t].result = trace'[Len(trace')][2]
               /\ outcome'[t].result # "returned"
               /\ lock = t /\ lock' = 0
               /\ is_loaded' = FALSE
               /\ loaded_packages' = loaded_packages
       /\ (PassFailed /\ PassFailed')
            => /\ loaded_packages' = loaded_packages
               /\ trace' = trace
               /\ is_loaded' = FALSE
               /\ lock' = 0
       /\ PassFailed'
            => LET called == AfterPackagesLoadedCalls(trace')
               IN  called # <<>>
                   => /\ FailedWith' = "HookError"
                      /\ trace'[Len(trace') - 1]
                           = <<"after_packages_loaded", called[Len(called)]>>
                      /\ <<"after_packages_loaded", called[Len(called)]>> \in failing
                      /\ IsPrefix(called, hooks')]_vars

\* the import of module a.x.m raises: a first pass failed on it after package
\* a was loaded, and a later call took the lock and started a second pass,
\* which failed the same way
C23_Witness ==
    /\ <<"load", Name(<<dA, dX, mM>>)>> \in failing
    /\ passes.started = 2
    /\ passes.failed = 2
    /\ PassFailed
    /\ FailedWith = "ImportError"
    /\ loaded_packages = <<Name(<<dA>>)>>
    /\ ~is_loaded
    /\ lock = 0

(***************************************************************************)
(* Packages without dependencies.                                          *)
(***************************************************************************)
\* the packages of the sweeps of the current root
PackagesOfRoot == components[frame.ci].packages

\* package u declares no dependency
HasNoDependency(u) == ~HasPackageClass(u) \/ pkg[u].DEPENDS = <<>>

\* a sweep of _load_components has visited its last package
SweepEnded == \E t \in Threads : pc[t] = "load" /\ frame.i > Len(frame.sweep)

\* C24: at the end of every sweep of _load_components, every package of the
\* root with an empty dependency list whose parent is loaded is loaded itself,
\* and so is every root-level package with an empty dependency list
C24_NoDependencyLoadsWithParent ==
    SweepEnded =>
        \A j \in 1..Len(PackagesOfRoot) :
            LET U == PackagesOfRoot[j].name
            IN  (HasNoDependency(U)
                 /\ (ParentPackage(U) = U \/ InSeq(ParentPackage(U), loaded_packages)))
                => InSeq(U, loaded_packages)

\* the second sweep has ended: package a.x, which depends on a.y, was deferred
\* by the first sweep with its child a.x.z, and both were loaded by the second
C24_Witness ==
    /\ SweepEnded
    /\ frame.depth = 1
    /\ HasPackageClass(Name(<<dA, dX>>))
    /\ pkg[Name(<<dA, dX>>)].DEPENDS = <<Name(<<dA, dY>>)>>
    /\ HasNoDependency(Name(<<dA, dX, dZ>>))
    /\ loaded_packages
         = <<Name(<<dA>>), Name(<<dA, dY>>), Name(<<dA, dX>>), Name(<<dA, dX, dZ>>)>>

(***************************************************************************)
(* The package_loaded broadcast of a loaded package.                       *)
(***************************************************************************)
\* the positions of the history of the pass at which package U was appended
\* to _loaded_packages
AppendsOf(U) == {i \in 1..Len(trace) : trace[i] = <<"append", U>>}

\* the positions at which package_loaded was called on a hook for package U
BroadcastsOf(U) ==
    {k \in 1..Len(trace) : trace[k][1] = "package_loaded" /\ trace[k][3] = U}

\* C25: in every pass a loaded package is appended to _loaded_packages once,
\* after a load of each of its modules; the package_loaded calls for it are
\* made in one run that starts right after the append, on the registered
\* hooks in order and at most once per registration, so all of them come
\* before the next load of any package or module
C25_PackageLoadedAfterAppend ==
    /\ \A j \in 1..Len(loaded_packages) :
          /\ Cardinality(AppendsOf(loaded_packages[j])) = 1
          /\ \A o \in 1..Len(loaded_packages) :
                loaded_packages[o] = loaded_packages[j] => o = j
    /\ \A U \in AllUnits :
          /\ AppendsOf(U) # {} => InSeq(U, loaded_packages)
          /\ BroadcastsOf(U) # {} => AppendsOf(U) # {}
          /\ \A i \in AppendsOf(U) :
                /\ \A m \in ModulesOfUnit(U) :
                      \E l \in 1..(i - 1) : trace[l] = <<"load", m>>
                /\ \A k \in BroadcastsOf(U) :
                      /\ k > i
                      /\ \A n \in (i + 1)..k : n \in BroadcastsOf(U)
                /\ IsPrefix(PackageLoadedCalls(U, trace), hooks)

\* package a.x, with its module a.x.m, was loaded while hook h1 was
\* registered: the load of a.x.m, the append, the call of package_loaded on
\* h1, and only then the load of the next package
C25_Witness ==
    /\ hooks = <<"h1">>
    /\ \E i \in 1..Len(trace) :
          /\ i + 3 <= Len(trace)
          /\ trace[i][1] \in {"load", "custom"}
          /\ trace[i][2] = Name(<<dA, dX, mM>>)
          /\ trace[i + 1] = <<"append", Name(<<dA, dX>>)>>
          /\ trace[i + 2] = <<"package_loaded", "h1", Name(<<dA, dX>>)>>
          /\ trace[i + 3] = <<"load", Name(<<dA, dY>>)>>

(***************************************************************************)
(* The order of the steps of a pass.                                       *)
(***************************************************************************)
\* the positions of a thread inside the locked block of load_components
InPass == {"find", "load", "package_loaded", "after", "finish", "blocked"}

\* the moves of a thread from one position of load_components to the next
PassOrder ==
    {<<"idle", "acquire">>, <<"acquire", "find">>, <<"acquire", "idle">>,
     <<"find", "load">>, <<"find", "after">>,
     <<"load", "package_loaded">>, <<"package_loaded", "load">>, <<"load", "after">>,
     <<"after", "finish">>, <<"finish", "idle">>,
     <<"load", "idle">>, <<"package_loaded", "idle">>, <<"after", "idle">>,
     <<"package_loaded", "blocked">>, <<"after", "blocked">>}

\* the positions of the history of the pass at which after_packages_loaded
\* was called on a hook
AfterCallsAt == {k \in 1..Len(trace) : trace[k][1] = "after_packages_loaded"}

\* C26: a pass goes through the reset, the discovery of every root, the
\* loading, the calls of after_packages_loaded and the assignment of
\* _is_loaded in that order: the per-pass lists are empty when discovery
\* starts, nothing is loaded during discovery, nothing is discovered once
\* loading has started, nothing is loaded once _after_packages_loaded has
\* started, _is_loaded is False as long as the pass runs, and when the pass
\* completes every discovered package is loaded and the calls of
\* after_packages_loaded are one run on the registered hooks, in order, at the
\* end of the history of the pass
C26_StepsOfACompletedPass ==
    [][\A t \in Threads :
         /\ pc'[t] # pc[t] => <<pc[t], pc'[t]>> \in PassOrder
         /\ pc'[t] \in InPass => ~is_loaded'
         /\ (pc[t] = "acquire" /\ pc'[t] = "find")
            => /\ all_packages' = <<>> /\ loaded_packages' = <<>>
               /\ disabled_packages' = <<>> /\ not_packages' = <<>>
               /\ dependency_map' = <<>> /\ components' = <<>>
               /\ trace' = <<>>
         /\ pc'[t] = "find" => (loaded_packages' = <<>> /\ trace' = <<>>)
         /\ (pc[t] = "find" /\ pc'[t] # "find") => frame.ri = Len(roots)
         /\ pc[t] \in {"load", "package_loaded", "after", "finish"}
            => /\ all_packages' = all_packages
               /\ components' = components
               /\ disabled_packages' = disabled_packages
         /\ pc[t] \in {"after", "finish"}
            => /\ loaded_packages' = loaded_packages
               /\ \A k \in (Len(trace) + 1)..Len(trace') :
                     trace'[k][1] \in {"after_packages_loaded", "reenter", "raise"}
         /\ (pc[t] = "finish" /\ pc'[t] = "idle")
            => /\ ~is_loaded /\ is_loaded'
               /\ Range(loaded_packages) = Range(all_packages)
               /\ IsPrefix(AfterPackagesLoadedCalls(trace), hooks)
               /\ \A k \in AfterCallsAt : \A n \in k..Len(trace) : n \in AfterCallsAt]_vars

\* a pass has completed with a hook registered: four packages were loaded,
\* package_loaded was called for the last of them, and after_packages_loaded
\* was called last
C26_Witness ==
    /\ is_loaded
    /\ Len(all_packages) = 4
    /\ Len(loaded_packages) = 4
    /\ Len(hooks) = 1
    /\ Len(trace) >= 2
    /\ trace[Len(trace)] = <<"after_packages_loaded", hooks[1]>>
    /\ trace[Len(trace) - 1] = <<"package_loaded", hooks[1], loaded_packages[4]>>

(***************************************************************************)
(* The reset at the start of a pass.                                       *)
(***************************************************************************)
\* thread t stands after _initialize, before the discovery of the first root
AtStartOfPass(t) == pc[t] = "find" /\ frame.ri = 1

\* C27: the step that starts a pass, the first one or one that follows a
\* failed pass, leaves _all_packages, _loaded_packages, _disabled_packages,
\* _not_packages, _dependency_map and _components empty and changes neither
\* the roots, the ignore lists, the ignored detector, the base component, the
\* module loader nor the list of hooks
C27_ResetAtStartOfPass ==
    [][\A t \in Threads :
         (pc[t] = "acquire" /\ pc'[t] = "find")
         => /\ AtStartOfPass(t)'
            /\ all_packages' = <<>>
            /\ loaded_packages' = <<>>
            /\ disabled_packages' = <<>>
            /\ not_packages' = <<>>
            /\ dependency_map' = <<>>
            /\ components' = <<>>
            /\ roots' = roots
            /\ ignored_packages' = ignored_packages
            /\ ignored_modules' = ignored_modules
            /\ ignored_detector' = ignored_detector
            /\ base_component' = base_component
            /\ module_loader' = module_loader
            /\ hooks' = hooks]_vars

\* a second pass starts after a first pass that discovered and loaded
\* packages has failed: every per-pass list is empty again, and the hook
\* registered during the first pass is still registered
C27_Witness ==
    /\ \E t \in Threads : AtStartOfPass(t)
    /\ passes.started = 2
    /\ passes.failed = 1
    /\ all_packages = <<>>
    /\ loaded_packages = <<>>
    /\ components = <<>>
    /\ dependency_map = <<>>
    /\ hooks # <<>>
    /\ \E t \in Threads : Len(outcome[t].loaded) > 0

(***************************************************************************)
(* Loaded packages are neither disabled nor ignored.                       *)
(***************************************************************************)
\* the ignored detector answers True for package n
DetectedIgnored(n) == <<n, FALSE>> \in ignored_detector

\* C28: in every state, no name of _loaded_packages is in _disabled_packages,
\* matches an entry of the ignore list or is ignored by the ignored detector
C28_LoadedNeitherDisabledNorIgnored ==
    \A j \in 1..Len(loaded_packages) :
        /\ ~InSeq(loaded_packages[j], disabled_packages)
        /\ ~MatchesIgnoreList(loaded_packages[j])
        /\ ~DetectedIgnored(loaded_packages[j])

\* a pass has completed on an application where a.y declares ENABLED = False
\* and the ignored detector ignores a.x.z: a.y is recorded as disabled and
\* the packages loaded are a and a.x
C28_Witness ==
    /\ is_loaded
    /\ disabled_packages = <<Name(<<dA, dY>>)>>
    /\ DetectedIgnored(Name(<<dA, dX, dZ>>))
    /\ OnDisk(Name(<<dA, dX, dZ>>))
    /\ loaded_packages = <<Name(<<dA>>), Name(<<dA, dX>>)>>

(***************************************************************************)
(* The entries of the dependency map.                                      *)
(***************************************************************************)
\* the step starts a pass: _initialize clears the dependency map
StartsPass == \E t \in Threads : pc[t] = "acquire" /\ pc'[t] = "find"

\* C29: a step that does not start a pass keeps every entry of
\* _dependency_map with its value, also when it validates again a package
\* that an earlier sweep deferred
C29_DependencyMapEntriesKept ==
    [][~StartsPass
       => \A n \in DOMAIN dependency_map :
             /\ n \in DOMAIN dependency_map'
             /\ dependency_map'[n] = dependency_map[n]]_vars

\* package a.x, which depends on a.y, was deferred by the first sweep and
\* validated again and loaded by the second: its entry is still its
\* dependency list
C29_Witness ==
    /\ frame.depth = 1
    /\ Name(<<dA, dX>>) \in DOMAIN dependency_map
    /\ dependency_map[Name(<<dA, dX>>)] = <<Name(<<dA, dY>>)>>
    /\ InSeq(<<"sweep", 1>>, trace)
    /\ InSeq(Name(<<dA, dX>>), loaded_packages)
    /\ loaded_packages[Len(loaded_packages)] = Name(<<dA, dX>>)

(***************************************************************************)
(* The order of the visits and of the loads of a sweep.                    *)
(***************************************************************************)
\* the names of a list of components
NamesOfComponents(packages) == [j \in 1..Len(packages) |-> packages[j].name]

\* list s, which holds no element twice, is list r without some of its
\* elements, order kept
IsSubsequence(s, r) ==
    /\ \A i \in 1..Len(s) : InSeq(s[i], r)
    /\ \A i \in 1..Len(s) : \A j \in (i + 1)..Len(s) :
          \E a \in 1..Len(r) : \E b \in (a + 1)..Len(r) : r[a] = s[i] /\ r[b] = s[j]

\* the position in the history of the pass at which the running sweep
\* started, 0 for a first sweep
LastSweepAt ==
    LET at == {k \in 1..Len(trace) : trace[k][1] = "sweep"}
    IN  IF at = {} THEN 0 ELSE CHOOSE k \in at : \A o \in at : o <= k

\* the packages of the running sweep that have been loaded, in the order of
\* their appends to _loaded_packages
LoadedInSweep ==
    SelectSeq(NamesOf("append", SubSeq(trace, LastSweepAt + 1, Len(trace))),
              LAMBDA n : InSeq(n, NamesOfComponents(frame.sweep)))

\* the step is the visit of the package at frame.i by thread t
Visits(t) ==
    /\ pc[t] = "load"
    /\ frame.i <= Len(frame.sweep)
    /\ (frame' # frame \/ pc'[t] # pc[t])

\* C30: a sweep visits its packages in discovery order; a visit that raises
\* nothing loads the package exactly if all its dependencies and its parent
\* are in _loaded_packages at that moment, and defers it otherwise; the
\* packages a sweep loads are appended to _loaded_packages in discovery order
\* and the packages it defers are passed to the next sweep in discovery
\* order; a package is appended after its dependencies
C30_SweepInDiscoveryOrder ==
    [][/\ \A t \in Threads :
            Visits(t)
            => LET U == frame.sweep[frame.i].name
                   deps == IF HasPackageClass(U) THEN pkg[U].DEPENDS ELSE <<>>
                   ready == /\ \A k \in 1..Len(deps) : InSeq(deps[k], loaded_packages)
                            /\ \/ ParentPackage(U) = U
                               \/ InSeq(ParentPackage(U), loaded_packages)
               IN  IF pc'[t] = "idle"
                   THEN loaded_packages' = loaded_packages
                   ELSE IF ready
                   THEN /\ loaded_packages' = Append(loaded_packages, U)
                        /\ frame'.dependent = frame.dependent
                        /\ frame'.i = frame.i
                        /\ pc'[t] = "package_loaded"
                   ELSE /\ loaded_packages' = loaded_packages
                        /\ frame'.dependent = Append(frame.dependent, frame.sweep[frame.i])
                        /\ frame'.i = frame.i + 1
       /\ \A t \in Threads :
            (pc[t] = "package_loaded" /\ pc'[t] = "load")
            => (frame'.i = frame.i + 1 /\ frame'.sweep = frame.sweep)
       /\ \A t \in Threads :
            pc'[t] \in {"load", "package_loaded"}
            => /\ IsSubsequence(NamesOfComponents(frame'.sweep),
                                NamesOfComponents(components'[frame'.ci].packages))
               /\ IsSubsequence(NamesOfComponents(frame'.dependent),
                                NamesOfComponents(frame'.sweep))
               /\ IsSubsequence(LoadedInSweep', NamesOfComponents(frame'.sweep))
       /\ \A t \in Threads :
            (pc[t] = "load" /\ pc'[t] = "load" /\ frame'.depth = frame.depth + 1)
            => frame'.sweep = frame.dependent
       /\ \A j \in 1..Len(loaded_packages') :
            LET U == loaded_packages'[j]
            IN  HasPackageClass(U)
                => \A k \in 1..Len(pkg[U].DEPENDS) :
                      \E o \in 1..(j - 1) : loaded_packages'[o] = pkg[U].DEPENDS[k]]_vars

\* a.x depends on a.y and is discovered before it: the first sweep deferred
\* a.x and loaded a.y, the second loaded a.x, so a.y is loaded before a.x
C30_Witness ==
    /\ is_loaded
    /\ all_packages = <<Name(<<dA>>), Name(<<dA, dX>>), Name(<<dA, dY>>)>>
    /\ HasPackageClass(Name(<<dA, dX>>))
    /\ pkg[Name(<<dA, dX>>)].DEPENDS = <<Name(<<dA, dY>>)>>
    /\ loaded_packages = <<Name(<<dA>>), Name(<<dA, dY>>), Name(<<dA, dX>>)>>

\* every root has been scanned in the pass that was started last
DiscoveryDone == passes.started > 0 /\ \A t \in Threads : pc[t] # "find"

\* the application has no ignore list, no ignored detector and no package
\* that declares ENABLED = False
Unfiltered ==
    /\ ignored_packages = <<>>
    /\ ignored_detector = {}
    /\ \A u \in DOMAIN pkg : pkg[u].IS_ENABLED

\* the names of the first segments of name n, n included
SegmentPrefixes(n) ==
    LET parts == Split(n, Dot)
    IN  {Join(SubSeq(parts, 1, k), Dot) : k \in 1..Len(parts)}

\* directory /p/<n> is root number r or below it, segment by segment
UnderRoot(n, r) ==
    \E m \in SegmentPrefixes(n) : DirOf(m) = roots[r]

\* the directory of n and every directory from the root down to it hold
\* __init__.py
MarkedFromRoot(n) ==
    \A m \in SegmentPrefixes(n) : _has_module(DirOf(m), InitName)

(***************************************************************************)
(* C31.  During the scan of a root, a visited directory is a package if    *)
(* and only if it holds __init__.py and every directory from the root down *)
(* to it holds one, directories compared segment by segment: a directory   *)
(* without __init__.py does not exclude a sibling whose name it is a       *)
(* string prefix of.  Stated for applications with one root and no filter, *)
(* where the packages are the names of _all_packages.                      *)
(***************************************************************************)
C31_PackageIffMarkedFromRoot ==
    (DiscoveryDone /\ Unfiltered /\ Len(roots) = 1) =>
        \A n \in AllUnits :
            (OnDisk(n) /\ UnderRoot(n, 1)) =>
                (InSeq(n, all_packages) <=> MarkedFromRoot(n))

\* package n is recorded in the component table under root number r
RecordedUnder(n, r) ==
    \E c \in 1..Len(components) :
        /\ components[c].root = roots[r]
        /\ \E j \in 1..Len(components[c].packages) : components[c].packages[j].name = n

(***************************************************************************)
(* C32.  With several roots, the scan of root R visits a directory if and  *)
(* only if it is R or below R, and neither another root nor below another  *)
(* root, directories compared segment by segment: roots whose paths have a *)
(* common string prefix, like /p/a and /p/ab, contribute each its own      *)
(* packages.  Stated for applications without filter, where every visited  *)
(* directory that holds __init__.py from its root down is recorded under   *)
(* that root, and nothing else is.                                         *)
(***************************************************************************)
C32_EachRootContributesItsOwn ==
    (DiscoveryDone /\ Unfiltered /\ Len(roots) > 1) =>
        \A r \in 1..Len(roots) : \A n \in AllUnits :
            RecordedUnder(n, r) <=>
                /\ OnDisk(n)
                /\ UnderRoot(n, r)
                /\ \A o \in 1..Len(roots) : roots[o] # roots[r] => ~UnderRoot(n, o)
                /\ MarkedFromRoot(n)

(***************************************************************************)
(* C33.  A reader of is_package_loaded / get_loaded_packages, which takes   *)
(* no lock, only sees appends: across any sequence of calls of             *)
(* load_components, a call that follows a failed pass included, every step *)
(* leaves _loaded_packages a prefix of its next value, so a name once read *)
(* in the list is never read absent later.  As claimed.                    *)
(***************************************************************************)
C33_ReaderSeesOnlyAppends ==
    [][IsPrefix(loaded_packages, loaded_packages')]_vars

(***************************************************************************)
(* C33, amended.  A step that does not start a pass leaves                 *)
(* _loaded_packages unchanged or appends one name to it, and leaves it     *)
(* unchanged once the packages are loaded; the step that starts a pass     *)
(* empties the list, and is taken only while the packages are not loaded   *)
(* (by the first call or by a call that follows a failed pass).            *)
(***************************************************************************)
C33_OnlyAppendsWithinAPass ==
    [][IF StartsPass
       THEN loaded_packages' = <<>> /\ ~is_loaded
       ELSE /\ IsPrefix(loaded_packages, loaded_packages')
            /\ Len(loaded_packages') <= Len(loaded_packages) + 1
            /\ is_loaded => loaded_packages' = loaded_packages]_vars

\* the pass of one thread has failed after it loaded package a, which a
\* reader could see in the list, and the call of another thread has started
\* a pass: the list is empty
C33_Witness ==
    /\ passes.failed = 1
    /\ passes.started = 2
    /\ \E t \in Threads : AtStartOfPass(t)
    /\ \E o \in Threads : InSeq(Name(<<dA>>), outcome[o].loaded)
    /\ ~InSeq(Name(<<dA>>), loaded_packages)

\* package n is A or in the subtree of A, segment by segment, for an entry A
\* of the ignore list, a package A the ignored detector ignores or a package
\* A that declares ENABLED = False
SegmentExcluded(n) ==
    \/ \E i \in 1..Len(ignored_packages) : _is_equal(ignored_packages[i], n)
    \/ \E A \in AllUnits :
          /\ DeclaresDisabled(A) \/ DetectedIgnored(A)
          /\ _contains(A, n)

(***************************************************************************)
(* C34.  Disabling or ignoring a package A excludes only A and the         *)
(* packages of its subtree by name segments: a discovered package whose    *)
(* name has the name of A as a string prefix only (a.xq when a.x is        *)
(* disabled or ignored) is still added to _all_packages and loaded,        *)
(* whatever the order in which the sibling directories are discovered.     *)
(* Stated for one root whose visited directories all hold __init__.py.     *)
(***************************************************************************)
C34_OnlySegmentSubtreeExcluded ==
    (DiscoveryDone /\ Len(roots) = 1 /\ not_packages = <<>>) =>
        \A n \in AllUnits :
            (OnDisk(n) /\ UnderRoot(n, 1) /\ MarkedFromRoot(n) /\ ~SegmentExcluded(n)) =>
                /\ InSeq(n, all_packages)
                /\ is_loaded => InSeq(n, loaded_packages)

\* the application configures and declares nothing that fails a pass: no
\* dependency, no component module, no call that raises
NothingDeclared ==
    /\ failing = {}
    /\ base_component = None
    /\ \A u \in DOMAIN pkg : pkg[u].DEPENDS = <<>> /\ pkg[u].COMPONENT_NAME = None

\* _loaded_packages is a permutation of _all_packages, which has no name twice
LoadedIsPermutationOfAll ==
    /\ Len(loaded_packages) = Len(all_packages)
    /\ Range(loaded_packages) = Range(all_packages)
    /\ Cardinality(Range(all_packages)) = Len(all_packages)

====
